---- MODULE Spec2Model ----
(***************************************************************************)
(* Storage core of BusTub: LRU-K replacer, buffer pool manager, page       *)
(* guards, B+ tree pages, B+ tree index and index iterator.                *)
(*                                                                         *)
(* The specifications share the variables below:                           *)
(*   SpecReplacer  the LRU-K replacer driven directly through its API      *)
(*   Spec          the buffer pool manager over its replacer and the disk  *)
(*   SpecGuard     threads taking latched page guards from the buffer pool *)
(*   SpecTree      the B+ tree (Insert, Remove, GetValue, iterator) run by *)
(*                 one thread; SpecInsert is its insert-only restriction   *)
(***************************************************************************)
EXTENDS Integers, Sequences, FiniteSets, TLC

VARIABLES
  replacer,      \* LRUKReplacer: node_store_, heaps, current_timestamp_, curr_size_, k_
  pages,         \* BufferPoolManager::pages_ : frame -> Page metadata and content
  page_table,    \* BufferPoolManager::page_table_
  free_list,     \* BufferPoolManager::free_list_
  next_page_id,  \* BufferPoolManager::next_page_id_
  disk,          \* DiskManager: page id -> content
  last,          \* the most recent call and what it returned
  latch,         \* Page::rwlatch_ of every frame
  guards,        \* live page guards
  tpc,           \* per thread: position inside a guard constructor
  tree,          \* the B+ tree: header root id, pages, sizes
  live,          \* keys inserted and not removed since, with their values
  iter           \* IndexIterator: page_, i_

vars == <<replacer, pages, page_table, free_list, next_page_id, disk, last,
          latch, guards, tpc, tree, live, iter>>

-----------------------------------------------------------------------------
(* Bounds of the model. *)

\* number of frames of the buffer pool (pool_size_)
PoolSize == 2
\* number of frames of a replacer used on its own (replacer_size_)
ReplacerFrames == 3
\* largest replacer_k the model constructs
MaxK == 2
\* current_timestamp_ stops here
MaxTimestamp == 4

\* number of frames of the replacer whose frames are accessed once each
InfFrames == 6

\* frames the LRU-K example run accesses
ScenarioFrames == 6

\* frames of the pool of the buffer pool example run
ScenarioPoolSize == 3

Frames == 0 .. (PoolSize - 1)

\* src/include/common/config.h is not part of the sources; the value is the
\* sentinel the spec names ("no page").
INVALID_PAGE_ID == -1

\* a map with no entry (an empty unordered_map)
EmptyMap == [x \in {} |-> 0]

Erase(f, x) == [y \in (DOMAIN f) \ {x} |-> f[y]]

Put(f, x, v) == [y \in (DOMAIN f) \cup {x} |-> IF y = x THEN v ELSE f[y]]

\* the record of the most recent call: its name, its arguments, whether it
\* succeeded, what it returned, whether it threw
Call(op, arg, flag, ok, ret, threw) ==
  [op |-> op, arg |-> arg, flag |-> flag, ok |-> ok, ret |-> ret, threw |-> threw]

NoCall == Call("none", -1, FALSE, FALSE, -1, FALSE)

-----------------------------------------------------------------------------
(* LRUKNode and LRUHeap (lru_k_replacer.h).  node_store_ is a function     *)
(* whose domain is the set of tracked frames; a heap is the sequence of    *)
(* frame ids of heap_, heap_[i] being h[i+1].                              *)

LRUKNode(fid) == [fid_ |-> fid, history_ |-> << >>, is_evictable_ |-> FALSE, i_ |-> -1]

Front(s) == s[1]
Back(s) == s[Len(s)]
PopBack(s) == SubSeq(s, 1, Len(s) - 1)
PopFront(s) == SubSeq(s, 2, Len(s))

\* LRUHeap::compare_ : > 0 when lhs is to be evicted before rhs.  The
\* differences are size_t values returned as int; timestamps stay far below
\* 2^31, so the conversion yields the mathematical difference.
compare_(k, ns, lhs, rhs) ==
  IF Len(ns[lhs].history_) < k
    THEN Front(ns[rhs].history_) - Front(ns[lhs].history_)
    ELSE (Back(ns[lhs].history_) - Front(ns[lhs].history_))
         - (Back(ns[rhs].history_) - Front(ns[rhs].history_))

\* swap heap_[i] and heap_[j] (0-based) and their back-indices
HeapSwap(hs, i, j) ==
  LET a == hs.heap[i + 1]
      b == hs.heap[j + 1]
  IN  [heap |-> [hs.heap EXCEPT ![i + 1] = b, ![j + 1] = a],
       ns   |-> [hs.ns EXCEPT ![a].i_ = j, ![b].i_ = i]]

RECURSIVE up(_, _, _)
up(k, hs, i) ==
  IF i = 0 THEN hs
  ELSE LET j == (i - 1) \div 2
       IN  IF compare_(k, hs.ns, hs.heap[j + 1], hs.heap[i + 1]) > 0 THEN hs
           ELSE up(k, HeapSwap(hs, j, i), j)

RECURSIVE down(_, _, _)
down(k, hs, i) ==
  LET n  == Len(hs.heap)
      j0 == i * 2 + 1
  IN  IF j0 >= n THEN hs
      ELSE LET j == IF j0 + 1 < n /\ compare_(k, hs.ns, hs.heap[j0 + 2], hs.heap[j0 + 1]) > 0
                      THEN j0 + 1 ELSE j0
           IN  IF compare_(k, hs.ns, hs.heap[i + 1], hs.heap[j + 1]) > 0 THEN hs
               ELSE down(k, HeapSwap(hs, i, j), j)

\* LRUHeap::Push
HeapPush(k, hs, fid) ==
  LET n == Len(hs.heap)
  IN  up(k, [heap |-> Append(hs.heap, fid), ns |-> [hs.ns EXCEPT ![fid].i_ = n]], n)

\* LRUHeap::Remove(i); the caller guarantees 0 <= i < n (BUSTUB_ASSERT)
HeapRemove(k, hs, i) ==
  LET n    == Len(hs.heap)
      a    == hs.heap[i + 1]
      b    == hs.heap[n]
      ns1  == [hs.ns EXCEPT ![a].i_ = -1]
      ns2  == [ns1 EXCEPT ![b].i_ = i]
      h1   == PopBack([hs.heap EXCEPT ![i + 1] = b])
  IN  down(k, [heap |-> h1, ns |-> ns2], i)

\* LRUHeap::Pop; the popped node is hs.heap[1] of the argument
HeapPop(k, hs) ==
  LET n    == Len(hs.heap)
      node == hs.heap[1]
      b    == hs.heap[n]
      ns1  == [hs.ns EXCEPT ![b].i_ = 0]
      h1   == PopBack([hs.heap EXCEPT ![1] = b])
      d    == down(k, [heap |-> h1, ns |-> ns1], 0)
  IN  [heap |-> d.heap, ns |-> [d.ns EXCEPT ![node].i_ = -1]]

-----------------------------------------------------------------------------
(* LRUKReplacer (lru_k_replacer.cpp).  Each operator returns the replacer  *)
(* after the call; the mutex makes every call atomic.                      *)

NewReplacer(num_frames, k) ==
  [node_store_ |-> EmptyMap, current_timestamp_ |-> 0, curr_size_ |-> 0,
   replacer_size_ |-> num_frames, k_ |-> k,
   less_than_k_heap_ |-> << >>, equal_to_k_heap_ |-> << >>]

Tracked(r) == DOMAIN r.node_store_

LtHs(r) == [heap |-> r.less_than_k_heap_, ns |-> r.node_store_]
EqHs(r) == [heap |-> r.equal_to_k_heap_, ns |-> r.node_store_]
WithLt(r, hs) == [r EXCEPT !.less_than_k_heap_ = hs.heap, !.node_store_ = hs.ns]
WithEq(r, hs) == [r EXCEPT !.equal_to_k_heap_ = hs.heap, !.node_store_ = hs.ns]

\* remove the node of fid from the heap chosen by in_lt, at its back-index
ReplacerHeapRemove(r, fid, in_lt) ==
  IF in_lt THEN WithLt(r, HeapRemove(r.k_, LtHs(r), r.node_store_[fid].i_))
           ELSE WithEq(r, HeapRemove(r.k_, EqHs(r), r.node_store_[fid].i_))

\* ReplacerHeapPush that takes less_than_k_heap_ whatever the history length
ReplacerHeapPush_AlwaysLt(r, fid) == WithLt(r, HeapPush(r.k_, LtHs(r), fid))

\* push the node of fid on the heap its history length selects
ReplacerHeapPush(r, fid) ==
  IF Len(r.node_store_[fid].history_) < r.k_
    THEN WithLt(r, HeapPush(r.k_, LtHs(r), fid))
    ELSE WithEq(r, HeapPush(r.k_, EqHs(r), fid))

\* LRUKReplacer::Evict : [ok, fid, threw, r]
Evict(r) ==
  IF r.curr_size_ = 0
    THEN [ok |-> FALSE, fid |-> -1, threw |-> FALSE, r |-> r]
  ELSE IF Len(r.less_than_k_heap_) > 0
    THEN LET fid == r.less_than_k_heap_[1]
             r1  == WithLt(r, HeapPop(r.k_, LtHs(r)))
         IN  [ok |-> TRUE, fid |-> fid, threw |-> FALSE,
              r |-> [r1 EXCEPT !.node_store_ = Erase(r1.node_store_, fid),
                               !.curr_size_ = r.curr_size_ - 1]]
  ELSE IF Len(r.equal_to_k_heap_) > 0
    THEN LET fid == r.equal_to_k_heap_[1]
             r1  == WithEq(r, HeapPop(r.k_, EqHs(r)))
         IN  [ok |-> TRUE, fid |-> fid, threw |-> FALSE,
              r |-> [r1 EXCEPT !.node_store_ = Erase(r1.node_store_, fid),
                               !.curr_size_ = r.curr_size_ - 1]]
  ELSE [ok |-> FALSE, fid |-> -1, threw |-> TRUE, r |-> r]

\* LRUKReplacer::RecordAccess; frame_id in range (BUSTUB_ASSERT)
RecordAccess(r, frame_id) ==
  LET ns0  == IF frame_id \in Tracked(r) THEN r.node_store_
              ELSE Put(r.node_store_, frame_id, LRUKNode(frame_id))
      less_than_k == Len(ns0[frame_id].history_) < r.k_
      h1   == Append(ns0[frame_id].history_, r.current_timestamp_)
      h2   == IF ~less_than_k THEN PopFront(h1) ELSE h1
      r1   == [r EXCEPT !.node_store_ = [ns0 EXCEPT ![frame_id].history_ = h2],
                        !.current_timestamp_ = r.current_timestamp_ + 1]
  IN  IF r1.node_store_[frame_id].is_evictable_
        THEN ReplacerHeapPush(ReplacerHeapRemove(r1, frame_id, less_than_k), frame_id)
        ELSE r1

\* LRUKReplacer::SetEvictable; frame_id in range and tracked (BUSTUB_ASSERT)
SetEvictable(r, frame_id, set_evictable) ==
  IF r.node_store_[frame_id].is_evictable_ = set_evictable THEN r
  ELSE LET r1 == IF set_evictable
                   THEN ReplacerHeapPush(r, frame_id)
                   ELSE ReplacerHeapRemove(r, frame_id,
                                           Len(r.node_store_[frame_id].history_) < r.k_)
       IN  [r1 EXCEPT !.curr_size_ = IF set_evictable THEN r.curr_size_ + 1
                                                      ELSE r.curr_size_ - 1,
                      !.node_store_[frame_id].is_evictable_ = set_evictable]

\* LRUKReplacer::Remove line 79: the assertion fails and the process aborts
RemoveAborts(r, frame_id) ==
  frame_id \in Tracked(r) /\ ~r.node_store_[frame_id].is_evictable_

\* Remove that takes the node off its heap and leaves it in node_store_
Remove_KeepsNode(r, frame_id) ==
  IF frame_id \notin Tracked(r) THEN r
  ELSE ReplacerHeapRemove(r, frame_id, Len(r.node_store_[frame_id].history_) < r.k_)

\* LRUKReplacer::Remove; an untracked frame returns at once, a tracked one is
\* evictable (BUSTUB_ASSERT)
Remove(r, frame_id) ==
  IF frame_id \notin Tracked(r) THEN r
  ELSE LET r1 == ReplacerHeapRemove(r, frame_id,
                                    Len(r.node_store_[frame_id].history_) < r.k_)
       IN  [r1 EXCEPT !.node_store_ = Erase(r1.node_store_, frame_id)]

\* LRUKReplacer::Size
Size(r) == r.curr_size_

-----------------------------------------------------------------------------
(* The replacer driven through its public interface (SpecReplacer).        *)
(* Calls whose BUSTUB_ASSERT would abort the process are not issued.       *)

KSet == 1 .. MaxK

\* the variables the replacer specification leaves alone
poolVars == <<pages, page_table, free_list, next_page_id, disk>>
guardVars == <<latch, guards, tpc>>
treeVars == <<tree, live, iter>>

ReplacerRecordAccess(f) ==
  /\ replacer.current_timestamp_ < MaxTimestamp
  /\ replacer' = RecordAccess(replacer, f)
  /\ last' = Call("RecordAccess", f, FALSE, TRUE, -1, FALSE)
  /\ UNCHANGED <<poolVars, guardVars, treeVars>>

ReplacerSetEvictable(f, b) ==
  /\ f \in Tracked(replacer)
  /\ replacer' = SetEvictable(replacer, f, b)
  /\ last' = Call("SetEvictable", f, b, TRUE, -1, FALSE)
  /\ UNCHANGED <<poolVars, guardVars, treeVars>>

ReplacerRemove(f) ==
  /\ f \in Tracked(replacer) => replacer.node_store_[f].is_evictable_
  /\ replacer' = Remove(replacer, f)
  /\ last' = Call("Remove", f, FALSE, f \in Tracked(replacer), -1, FALSE)
  /\ UNCHANGED <<poolVars, guardVars, treeVars>>

\* Remove of a tracked frame that is not evictable: the assertion aborts the
\* process before anything is written, and no call follows
ReplacerRemoveFatal(f) ==
  /\ RemoveAborts(replacer, f)
  /\ last' = Call("abort", f, FALSE, FALSE, -1, TRUE)
  /\ UNCHANGED <<replacer, poolVars, guardVars, treeVars>>

ReplacerEvict ==
  LET e == Evict(replacer)
  IN  /\ replacer' = e.r
      /\ last' = Call("Evict", -1, FALSE, e.ok, e.fid, e.threw)
      /\ UNCHANGED <<poolVars, guardVars, treeVars>>

\* the first access of the next frame: frame f is accessed at timestamp f,
\* and with k_ = 2 stays in less_than_k_heap_ (backward k-distance +inf)
ReplacerFirstAccess ==
  /\ replacer.current_timestamp_ < replacer.replacer_size_
  /\ replacer' = RecordAccess(replacer, replacer.current_timestamp_)
  /\ last' = Call("RecordAccess", -1, FALSE, TRUE, -1, FALSE)
  /\ UNCHANGED <<poolVars, guardVars, treeVars>>

ReplacerCall ==
  \/ \E f \in 0 .. (replacer.replacer_size_ - 1) : ReplacerRecordAccess(f)
  \/ \E f \in 0 .. (replacer.replacer_size_ - 1), b \in BOOLEAN : ReplacerSetEvictable(f, b)
  \/ \E f \in 0 .. (replacer.replacer_size_ - 1) : ReplacerRemove(f)
  \/ \E f \in 0 .. (replacer.replacer_size_ - 1) : ReplacerRemoveFatal(f)
  \/ ReplacerEvict

NextReplacer == last.op # "abort" /\ ReplacerCall

\* SetEvictable and Remove on that replacer; last keeps the name of the call
InfSetEvictable(f, b) ==
  /\ f \in Tracked(replacer)
  /\ replacer' = SetEvictable(replacer, f, b)
  /\ last' = Call("SetEvictable", -1, FALSE, TRUE, -1, FALSE)
  /\ UNCHANGED <<poolVars, guardVars, treeVars>>

InfRemove(f) ==
  /\ f \in Tracked(replacer) /\ replacer.node_store_[f].is_evictable_
  /\ replacer' = Remove(replacer, f)
  /\ last' = Call("Remove", -1, FALSE, TRUE, -1, FALSE)
  /\ UNCHANGED <<poolVars, guardVars, treeVars>>

\* the calls made on a replacer whose frames all have fewer than k_ accesses
NextInf ==
  \/ ReplacerFirstAccess
  \/ \E f \in 0 .. (replacer.replacer_size_ - 1), b \in BOOLEAN : InfSetEvictable(f, b)
  \/ \E f \in 0 .. (replacer.replacer_size_ - 1) : InfRemove(f)
  \/ ReplacerEvict

\* The classic LRU-K run on LRUKReplacer(ScenarioFrames + 1, 2): the frames
\* 1 .. ScenarioFrames are accessed twice in turn, marked evictable (in any
\* order), all but the last are accessed once more, and Evict is called
\* until no frame is tracked.  current_timestamp_ counts the accesses made.
ScenarioFirstAccesses ==
  /\ replacer.current_timestamp_ < 2 * ScenarioFrames
  /\ replacer' = RecordAccess(replacer, (replacer.current_timestamp_ % ScenarioFrames) + 1)
  /\ last' = Call("RecordAccess", (replacer.current_timestamp_ % ScenarioFrames) + 1,
                  FALSE, TRUE, -1, FALSE)
  /\ UNCHANGED <<poolVars, guardVars, treeVars>>

ScenarioMarkEvictable(f) ==
  /\ replacer.current_timestamp_ = 2 * ScenarioFrames
  /\ Cardinality(Tracked(replacer)) = ScenarioFrames
  /\ ~replacer.node_store_[f].is_evictable_
  /\ replacer' = SetEvictable(replacer, f, TRUE)
  /\ last' = Call("SetEvictable", f, TRUE, TRUE, -1, FALSE)
  /\ UNCHANGED <<poolVars, guardVars, treeVars>>

ScenarioReaccess ==
  /\ replacer.current_timestamp_ >= 2 * ScenarioFrames
  /\ replacer.current_timestamp_ < 3 * ScenarioFrames - 1
  /\ replacer.curr_size_ = ScenarioFrames
  /\ replacer' = RecordAccess(replacer, replacer.current_timestamp_ - 2 * ScenarioFrames + 1)
  /\ last' = Call("RecordAccess", replacer.current_timestamp_ - 2 * ScenarioFrames + 1,
                  FALSE, TRUE, -1, FALSE)
  /\ UNCHANGED <<poolVars, guardVars, treeVars>>

ScenarioEvict ==
  /\ replacer.current_timestamp_ = 3 * ScenarioFrames - 1
  /\ Tracked(replacer) # {}
  /\ ReplacerEvict

NextScenario ==
  \/ ScenarioFirstAccesses
  \/ \E f \in 1 .. ScenarioFrames : ScenarioMarkEvictable(f)
  \/ ScenarioReaccess
  \/ ScenarioEvict

-----------------------------------------------------------------------------
(* BufferPoolManager (buffer_pool_manager.cpp).  latch_ makes NewPage,     *)
(* FetchPage, UnpinPage and FlushPage atomic.  A page's content is one     *)
(* value; ResetMemory makes it 0, and a page never written reads as 0.     *)

\* page ids the pool hands out in the model
MaxPages == 3
\* page contents are 0 .. MaxData
MaxData == 1

PageIds == 0 .. (MaxPages - 1)
Data == 0 .. MaxData

\* a Page after construction (its page_id_ is INVALID_PAGE_ID)
FreshPage == [page_id_ |-> INVALID_PAGE_ID, is_dirty_ |-> FALSE, pin_count_ |-> 0, data_ |-> 0]

\* WriteBackVictim without the write
WriteBackVictim_Skipped(d, page) == d

\* the victim's content goes to disk under its own page id when it is dirty
\* (NewPage line 48, FetchPage line 81)
WriteBackVictim(d, page) ==
  IF page.is_dirty_ THEN [d EXCEPT ![page.page_id_] = page.data_] ELSE d

\* EvictFrame that leaves the victim's page id in the page table
EvictFrame_KeepsPageTable(e) ==
  IF e.ok
    THEN [ok |-> TRUE, threw |-> FALSE, fid |-> e.fid, free |-> free_list, r |-> e.r,
          pgs |-> [pages EXCEPT ![e.fid].data_ = 0],
          pt |-> page_table,
          d |-> WriteBackVictim(disk, pages[e.fid])]
    ELSE [ok |-> FALSE, threw |-> e.threw, fid |-> -1, free |-> free_list,
          r |-> replacer, pgs |-> pages, pt |-> page_table, d |-> disk]

\* the frame NewPage and FetchPage take: the front of the free list, else the
\* replacer's victim e (written back, reset, erased from the page table), else none
EvictFrame(e) ==
  IF e.ok
    THEN [ok |-> TRUE, threw |-> FALSE, fid |-> e.fid, free |-> free_list, r |-> e.r,
          pgs |-> [pages EXCEPT ![e.fid].data_ = 0],
          pt |-> Erase(page_table, pages[e.fid].page_id_),
          d |-> WriteBackVictim(disk, pages[e.fid])]
    ELSE [ok |-> FALSE, threw |-> e.threw, fid |-> -1, free |-> free_list,
          r |-> replacer, pgs |-> pages, pt |-> page_table, d |-> disk]

\* AcquireFrame that leaves the frame it takes on the free list
AcquireFrame_KeepsFreeList ==
  IF Len(free_list) > 0
    THEN [ok |-> TRUE, threw |-> FALSE, fid |-> Head(free_list), free |-> free_list,
          r |-> replacer, pgs |-> pages, pt |-> page_table, d |-> disk]
    ELSE EvictFrame(Evict(replacer))

\* AcquireFrame that asks the replacer before it looks at the free list
AcquireFrame_EvictFirst ==
  IF Len(free_list) > 0 /\ ~Evict(replacer).ok
    THEN [ok |-> TRUE, threw |-> FALSE, fid |-> Head(free_list), free |-> Tail(free_list),
          r |-> replacer, pgs |-> pages, pt |-> page_table, d |-> disk]
    ELSE EvictFrame(Evict(replacer))

AcquireFrame ==
  IF Len(free_list) > 0
    THEN [ok |-> TRUE, threw |-> FALSE, fid |-> Head(free_list), free |-> Tail(free_list),
          r |-> replacer, pgs |-> pages, pt |-> page_table, d |-> disk]
    ELSE EvictFrame(Evict(replacer))

\* UnpinMakesEvictable without the test of the pin count
UnpinMakesEvictable_Always(pin_count) == TRUE

\* UnpinMakesEvictable with the test of the pin count inverted
UnpinMakesEvictable_Inverted(pin_count) == pin_count > 0

\* whether UnpinPage tells the replacer that the frame is evictable
UnpinMakesEvictable(pin_count) == pin_count = 0

\* NewPageWithin that takes the next page id before it looks for a frame
NewPageWithin_AllocatesFirst(max_timestamp, max_pages) ==
  \E a \in {AcquireFrame} :
      IF ~a.ok
        THEN /\ next_page_id < max_pages
             /\ next_page_id' = next_page_id + 1
             /\ last' = Call("NewPage", -1, FALSE, FALSE, -1, a.threw)
             /\ UNCHANGED <<replacer, pages, page_table, free_list, disk>>
        ELSE /\ replacer.current_timestamp_ < max_timestamp
             /\ next_page_id < max_pages
             /\ replacer' = SetEvictable(RecordAccess(a.r, a.fid), a.fid, FALSE)
             /\ pages' = [a.pgs EXCEPT ![a.fid].page_id_ = next_page_id,
                                       ![a.fid].is_dirty_ = FALSE,
                                       ![a.fid].pin_count_ = 1]
             /\ page_table' = Put(a.pt, next_page_id, a.fid)
             /\ free_list' = a.free
             /\ disk' = a.d
             /\ next_page_id' = next_page_id + 1
             /\ last' = Call("NewPage", -1, FALSE, TRUE, next_page_id, FALSE)

\* NewPage while the replacer has made fewer than max_timestamp accesses and
\* fewer than max_pages page ids are handed out
NewPageWithin(max_timestamp, max_pages) ==
  \E a \in {AcquireFrame} :
      IF ~a.ok
        THEN /\ last' = Call("NewPage", -1, FALSE, FALSE, -1, a.threw)
             /\ UNCHANGED <<replacer, poolVars>>
        ELSE /\ replacer.current_timestamp_ < max_timestamp
             /\ next_page_id < max_pages
             /\ replacer' = SetEvictable(RecordAccess(a.r, a.fid), a.fid, FALSE)
             /\ pages' = [a.pgs EXCEPT ![a.fid].page_id_ = next_page_id,
                                       ![a.fid].is_dirty_ = FALSE,
                                       ![a.fid].pin_count_ = 1]
             /\ page_table' = Put(a.pt, next_page_id, a.fid)
             /\ free_list' = a.free
             /\ disk' = a.d
             /\ next_page_id' = next_page_id + 1
             /\ last' = Call("NewPage", -1, FALSE, TRUE, next_page_id, FALSE)

NewPage == NewPageWithin(MaxTimestamp, MaxPages)

\* FetchPage of a page id NewPage has handed out, while the replacer has
\* made fewer than max_timestamp accesses
FetchPageWithin(page_id, max_timestamp) ==
  /\ page_id < next_page_id
  /\ IF page_id \in DOMAIN page_table
       THEN LET fid == page_table[page_id]
            IN  /\ replacer.current_timestamp_ < max_timestamp
                /\ replacer' = SetEvictable(RecordAccess(replacer, fid), fid, FALSE)
                /\ pages' = [pages EXCEPT ![fid].pin_count_ = @ + 1]
                /\ last' = Call("FetchPage", page_id, FALSE, TRUE, fid, FALSE)
                /\ UNCHANGED <<page_table, free_list, next_page_id, disk>>
       ELSE \E a \in {AcquireFrame} :
                IF ~a.ok
                  THEN /\ last' = Call("FetchPage", page_id, FALSE, FALSE, -1, a.threw)
                       /\ UNCHANGED <<replacer, poolVars>>
                  ELSE /\ replacer.current_timestamp_ < max_timestamp
                       /\ replacer' = SetEvictable(RecordAccess(a.r, a.fid), a.fid, FALSE)
                       /\ pages' = [a.pgs EXCEPT ![a.fid].data_ = a.d[page_id],
                                                 ![a.fid].page_id_ = page_id,
                                                 ![a.fid].is_dirty_ = FALSE,
                                                 ![a.fid].pin_count_ = @ + 1]
                       /\ page_table' = Put(a.pt, page_id, a.fid)
                       /\ free_list' = a.free
                       /\ disk' = a.d
                       /\ last' = Call("FetchPage", page_id, FALSE, TRUE, a.fid, FALSE)
                       /\ UNCHANGED next_page_id

FetchPage(page_id) == FetchPageWithin(page_id, MaxTimestamp)

\* UnpinPage without the early return on a pin count of 0
UnpinPage_NoPinCheck(page_id, is_dirty) ==
  IF page_id \notin DOMAIN page_table
    THEN /\ last' = Call("UnpinPage", page_id, is_dirty, FALSE, -1, FALSE)
         /\ UNCHANGED <<replacer, poolVars>>
    ELSE LET fid == page_table[page_id]
             pin == pages[fid].pin_count_ - 1
         IN  /\ pages' = [pages EXCEPT ![fid].pin_count_ = pin,
                                       ![fid].is_dirty_ = @ \/ is_dirty]
             /\ replacer' = IF UnpinMakesEvictable(pin)
                              THEN SetEvictable(replacer, fid, TRUE) ELSE replacer
             /\ last' = Call("UnpinPage", page_id, is_dirty, TRUE, -1, FALSE)
             /\ UNCHANGED <<page_table, free_list, next_page_id, disk>>

UnpinPage(page_id, is_dirty) ==
  IF page_id \notin DOMAIN page_table \/ pages[page_table[page_id]].pin_count_ = 0
    THEN /\ last' = Call("UnpinPage", page_id, is_dirty, FALSE, -1, FALSE)
         /\ UNCHANGED <<replacer, poolVars>>
    ELSE LET fid == page_table[page_id]
             pin == pages[fid].pin_count_ - 1
         IN  /\ pages' = [pages EXCEPT ![fid].pin_count_ = pin,
                                       ![fid].is_dirty_ = @ \/ is_dirty]
             /\ replacer' = IF UnpinMakesEvictable(pin)
                              THEN SetEvictable(replacer, fid, TRUE) ELSE replacer
             /\ last' = Call("UnpinPage", page_id, is_dirty, TRUE, -1, FALSE)
             /\ UNCHANGED <<page_table, free_list, next_page_id, disk>>

\* FlushPage that leaves the dirty bit as it is
FlushPage_KeepsDirty(page_id) ==
  IF page_id \notin DOMAIN page_table
    THEN /\ last' = Call("FlushPage", page_id, FALSE, FALSE, -1, FALSE)
         /\ UNCHANGED <<replacer, poolVars>>
    ELSE LET fid == page_table[page_id]
         IN  /\ disk' = [disk EXCEPT ![page_id] = pages[fid].data_]
             /\ last' = Call("FlushPage", page_id, FALSE, TRUE, -1, FALSE)
             /\ UNCHANGED <<replacer, pages, page_table, free_list, next_page_id>>

FlushPage(page_id) ==
  IF page_id \notin DOMAIN page_table
    THEN /\ last' = Call("FlushPage", page_id, FALSE, FALSE, -1, FALSE)
         /\ UNCHANGED <<replacer, poolVars>>
    ELSE LET fid == page_table[page_id]
         IN  /\ disk' = [disk EXCEPT ![page_id] = pages[fid].data_]
             /\ pages' = [pages EXCEPT ![fid].is_dirty_ = FALSE]
             /\ last' = Call("FlushPage", page_id, FALSE, TRUE, -1, FALSE)
             /\ UNCHANGED <<replacer, page_table, free_list, next_page_id>>

\* a caller that holds a pin writes the page's memory through Page::GetData
WritePageData(page_id, v) ==
  /\ page_id \in DOMAIN page_table
  /\ pages[page_table[page_id]].pin_count_ > 0
  /\ pages[page_table[page_id]].data_ # v
  /\ pages' = [pages EXCEPT ![page_table[page_id]].data_ = v]
  /\ last' = Call("WritePageData", page_id, FALSE, TRUE, v, FALSE)
  /\ UNCHANGED <<replacer, page_table, free_list, next_page_id, disk>>

PoolNewPage == NewPage /\ UNCHANGED <<guardVars, treeVars>>

PoolFetchPage(p) == FetchPage(p) /\ UNCHANGED <<guardVars, treeVars>>

PoolUnpinPage(p, b) == UnpinPage(p, b) /\ UNCHANGED <<guardVars, treeVars>>

PoolFlushPage(p) == FlushPage(p) /\ UNCHANGED <<guardVars, treeVars>>

PoolWritePageData(p, v) == WritePageData(p, v) /\ UNCHANGED <<guardVars, treeVars>>

NextPool ==
  \/ PoolNewPage
  \/ \E p \in PageIds : PoolFetchPage(p)
  \/ \E p \in PageIds, b \in BOOLEAN : PoolUnpinPage(p, b)
  \/ \E p \in PageIds : PoolFlushPage(p)
  \/ \E p \in PageIds, v \in Data : PoolWritePageData(p, v)

\* The calls of the buffer pool example run (SpecPoolScenario): a pool of
\* ScenarioPoolSize frames on an empty disk, page ids 0 .. ScenarioPoolSize
ScenarioPageIds == 0 .. ScenarioPoolSize

ScenarioNewPage ==
  /\ NewPageWithin(ScenarioPoolSize + 2, ScenarioPoolSize + 1)
  /\ UNCHANGED <<guardVars, treeVars>>

ScenarioFetchPage(p) ==
  /\ FetchPageWithin(p, ScenarioPoolSize + 2)
  /\ UNCHANGED <<guardVars, treeVars>>

NextPoolScenario ==
  \/ ScenarioNewPage
  \/ \E p \in ScenarioPageIds : ScenarioFetchPage(p)
  \/ \E p \in ScenarioPageIds, b \in BOOLEAN : PoolUnpinPage(p, b)
  \/ \E p \in ScenarioPageIds, v \in Data : PoolWritePageData(p, v)

-----------------------------------------------------------------------------
(* Page guards (SpecGuard).  Threads call the guard constructors of the    *)
(* buffer pool and drop the guards they hold.  FetchPage runs under the    *)
(* pool's mutex; the frame's rwlatch_ is taken afterwards and may block,   *)
(* so a latched fetch is two steps.  page_guard.cpp is not part of the     *)
(* sources: a guard is the pair (bpm_, page_) its constructor is given,    *)
(* and dropping it releases the latch of page_ and unpins page_, which is  *)
(* nothing at all when page_ is nullptr.                                    *)

\* threads of the model
NumThreads == 2
\* guards alive at one time
MaxGuards == 3

Threads == 1 .. NumThreads

\* nullptr as the page_ of a guard
NullFrame == -1

FreeLatch == [writer |-> 0, readers |-> 0]

Idle == [pc |-> "idle", frame |-> NullFrame]

NoFault == \A t \in Threads : tpc[t].pc # "fault"

Guard(t, kind, frame) == [owner |-> t, kind |-> kind, page_ |-> frame]

\* the live guards: how many guards of each value are alive
AddGuard(gs, g) == Put(gs, g, IF g \in DOMAIN gs THEN gs[g] + 1 ELSE 1)

RemoveGuard(gs, g) == IF gs[g] = 1 THEN Erase(gs, g) ELSE [gs EXCEPT ![g] = @ - 1]

RECURSIVE NumGuards(_)
NumGuards(gs) ==
  IF DOMAIN gs = {} THEN 0
  ELSE LET g == CHOOSE x \in DOMAIN gs : TRUE
       IN  gs[g] + NumGuards(Erase(gs, g))

\* MayFetch when a thread waiting for a latch still holds the pool's mutex
MayFetch_MutexHeldInWait(t) ==
  /\ NoFault /\ \A u \in Threads : tpc[u].pc = "idle"
  /\ NumGuards(guards) + Cardinality({u \in Threads : tpc[u].pc # "idle"}) < MaxGuards

\* a thread that may call a guard constructor
MayFetch(t) ==
  /\ NoFault /\ tpc[t].pc = "idle"
  /\ NumGuards(guards) + Cardinality({u \in Threads : tpc[u].pc # "idle"}) < MaxGuards

\* the page_ of the guard FetchPageWrite returns for the frame it latched
\* (buffer_pool_manager.cpp line 141)
FetchPageWriteGuardPage(frame) == NullFrame

\* FetchPageBasic: FetchPage, then the guard on whatever it returned
FetchPageBasic(t, page_id) ==
  /\ MayFetch(t)
  /\ FetchPage(page_id)
  /\ guards' = AddGuard(guards, Guard(t, "basic", last'.ret))
  /\ UNCHANGED <<latch, tpc, treeVars>>

\* FetchPageRead up to the call of RLock; page->rwlatch_ on nullptr is a fault
FetchPageRead(t, page_id) ==
  /\ MayFetch(t)
  /\ FetchPage(page_id)
  /\ tpc' = [tpc EXCEPT ![t] = IF last'.ok THEN [pc |-> "RLock", frame |-> last'.ret]
                                           ELSE [pc |-> "fault", frame |-> NullFrame]]
  /\ UNCHANGED <<latch, guards, treeVars>>

\* FetchPageWrite up to the call of WLock
FetchPageWrite(t, page_id) ==
  /\ MayFetch(t)
  /\ FetchPage(page_id)
  /\ tpc' = [tpc EXCEPT ![t] = IF last'.ok THEN [pc |-> "WLock", frame |-> last'.ret]
                                           ELSE [pc |-> "fault", frame |-> NullFrame]]
  /\ UNCHANGED <<latch, guards, treeVars>>

\* RLock returns once no writer holds the latch; FetchPageRead returns its guard
RLockReturns(t) ==
  /\ NoFault /\ tpc[t].pc = "RLock"
  /\ latch[tpc[t].frame].writer = 0
  /\ latch' = [latch EXCEPT ![tpc[t].frame].readers = @ + 1]
  /\ guards' = AddGuard(guards, Guard(t, "read", tpc[t].frame))
  /\ tpc' = [tpc EXCEPT ![t] = Idle]
  /\ UNCHANGED <<replacer, poolVars, last, treeVars>>

\* WLock returns once nobody holds the latch; FetchPageWrite returns its guard
WLockReturns(t) ==
  /\ NoFault /\ tpc[t].pc = "WLock"
  /\ latch[tpc[t].frame] = FreeLatch
  /\ latch' = [latch EXCEPT ![tpc[t].frame].writer = t]
  /\ guards' = AddGuard(guards, Guard(t, "write", FetchPageWriteGuardPage(tpc[t].frame)))
  /\ tpc' = [tpc EXCEPT ![t] = Idle]
  /\ UNCHANGED <<replacer, poolVars, last, treeVars>>

\* NewPageGuarded: NewPage, then the basic guard on whatever it returned
NewPageGuarded(t) ==
  /\ MayFetch(t)
  /\ NewPage
  /\ guards' = AddGuard(guards, Guard(t, "basic",
                   IF last'.ok THEN page_table'[last'.ret] ELSE NullFrame))
  /\ UNCHANGED <<latch, tpc, treeVars>>

\* the latch after a guard of this kind on the frame let go of it
Unlatch(l, kind) ==
  IF kind = "read" THEN [l EXCEPT !.readers = @ - 1]
  ELSE IF kind = "write" THEN [l EXCEPT !.writer = 0]
  ELSE l

\* Drop (and the destructor) of a guard: nothing for a guard without a page,
\* else the latch of its page is released and the page is unpinned
Drop(t, g) ==
  /\ NoFault /\ tpc[t].pc = "idle"
  /\ g \in DOMAIN guards /\ g.owner = t
  /\ guards' = RemoveGuard(guards, g)
  /\ IF g.page_ = NullFrame
       THEN UNCHANGED <<replacer, poolVars, last, latch>>
       ELSE /\ latch' = [latch EXCEPT ![g.page_] = Unlatch(@, g.kind)]
            /\ UnpinPage(pages[g.page_].page_id_, FALSE)
  /\ UNCHANGED <<tpc, treeVars>>

NextGuard ==
  \/ \E t \in Threads : NewPageGuarded(t)
  \/ \E t \in Threads, p \in PageIds : FetchPageBasic(t, p)
  \/ \E t \in Threads, p \in PageIds : FetchPageRead(t, p)
  \/ \E t \in Threads, p \in PageIds : FetchPageWrite(t, p)
  \/ \E t \in Threads : RLockReturns(t)
  \/ \E t \in Threads : WLockReturns(t)
  \/ \E t \in Threads : \E g \in DOMAIN guards : Drop(t, g)

-----------------------------------------------------------------------------
(* B+ tree pages (b_plus_tree_leaf_page.cpp, b_plus_tree_internal_page.cpp). *)
(* The tree t carries its pages: page id p is t.pages[p], the header page  *)
(* holds root_page_id_.  array_ is kept at its first size_ slots, so       *)
(* GetSize is its length; slot i of the code is array_[i + 1].  An         *)
(* operator on pages returns the tree after the call.  t.fault records     *)
(* that a BUSTUB_ASSERT failed: the call is abandoned there.               *)

\* keys stored in the tree by inserts only
MaxKey == 6
\* keys stored in the tree by inserts and removes
MaxMixedKey == 4
\* values stored with a key
MaxValue == 2
\* pages NewPage hands to a tree of inserts only
MaxTreePages == 8
\* pages NewPage hands to a tree of inserts and removes
MaxMixedPages == 4

Keys == 1 .. MaxKey
MixedKeys == 1 .. MaxMixedKey
Values == 1 .. MaxValue

LEAF_PAGE == "LEAF_PAGE"
INTERNAL_PAGE == "INTERNAL_PAGE"

MappingType(first, second) == [first |-> first, second |-> second]

GetSize(t, p) == Len(t.pages[p].array_)

GetMaxSize(t, p) == t.pages[p].max_size_

\* b_plus_tree_page.cpp is not part of the sources: min_size = ceil(max_size / 2)
GetMinSize(t, p) == (GetMaxSize(t, p) + 1) \div 2

\* a node can lend an entry iff its size is above min_size
CanBorrow(t, p) == GetSize(t, p) > GetMinSize(t, p)

IsLeafPage(t, p) == t.pages[p].page_type_ = LEAF_PAGE

GetNextPageId(t, p) == t.pages[p].next_page_id_

Abort(t) == [t EXCEPT !.fault = TRUE]

BUSTUB_ASSERT(t, cond) == IF cond THEN t ELSE Abort(t)

SetArray(t, p, a) == IF t.fault THEN t ELSE [t EXCEPT !.pages[p].array_ = a]

SetNextPageId(t, p, next) ==
  IF t.fault THEN t ELSE [t EXCEPT !.pages[p].next_page_id_ = next]

\* IncreaseSize(-n): the last n slots leave the page
IncreaseSize(t, p, n) ==
  IF t.fault THEN t
  ELSE SetArray(t, p, SubSeq(t.pages[p].array_, 1, GetSize(t, p) + n))

InRange(t, p, index) == index >= 0 /\ index < GetSize(t, p)

\* KeyAt / ValueAt / At: the assertion, then the slot
CheckIndex(t, p, index) == BUSTUB_ASSERT(t, InRange(t, p, index))

KeyAt(t, p, index) ==
  IF InRange(t, p, index) THEN t.pages[p].array_[index + 1].first ELSE 0

ValueAt(t, p, index) ==
  IF InRange(t, p, index) THEN t.pages[p].array_[index + 1].second ELSE INVALID_PAGE_ID

\* InternalPage::SetKeyAt asserts index > 0; a build with NDEBUG has no
\* assertion and writes the slot
SetKeyAt(t, p, index, key, ndebug) ==
  IF t.fault THEN t
  ELSE IF ~InRange(t, p, index) THEN Abort(t)
  ELSE IF index = 0 /\ ~ndebug THEN Abort(t)
  ELSE [t EXCEPT !.pages[p].array_[index + 1].first = key]

LeafInit(max_size) ==
  [page_type_ |-> LEAF_PAGE, max_size_ |-> max_size,
   next_page_id_ |-> INVALID_PAGE_ID, array_ |-> << >>]

\* InternalPage::Init(max_size); a leaf's next_page_id_ has no meaning here
InternalInit(max_size) ==
  [page_type_ |-> INTERNAL_PAGE, max_size_ |-> max_size,
   next_page_id_ |-> INVALID_PAGE_ID, array_ |-> << >>]

\* InternalPage::Init(max_size, lhs, mid, rhs): the key of slot 0 is not
\* written and is what NewPage's zeroed memory holds
InternalInitRoot(max_size, lhs, mid, rhs) ==
  [InternalInit(max_size) EXCEPT !.array_ = <<MappingType(0, lhs), MappingType(mid, rhs)>>]

\* LeafPage::IndexOfFirstKeyEqualOrGreaterThan on array a: [first, second]
RECURSIVE LeafSearch(_, _, _, _)
LeafSearch(a, key, i, j) ==
  IF i > j THEN [first |-> i, second |-> FALSE]
  ELSE LET mid == i + (j - i) \div 2
       IN  IF key < a[mid + 1].first THEN LeafSearch(a, key, i, mid - 1)
           ELSE IF key > a[mid + 1].first THEN LeafSearch(a, key, mid + 1, j)
           ELSE [first |-> mid, second |-> TRUE]

IndexOfFirstKeyEqualOrGreaterThan(t, p, key) ==
  LeafSearch(t.pages[p].array_, key, 0, GetSize(t, p) - 1)

\* LeafPage::Lookup : [ok, val]
LeafLookup(t, p, key) ==
  IF GetSize(t, p) = 0 THEN [ok |-> FALSE, val |-> 0]
  ELSE LET res == IndexOfFirstKeyEqualOrGreaterThan(t, p, key)
       IN  IF res.second THEN [ok |-> TRUE, val |-> ValueAt(t, p, res.first)]
           ELSE [ok |-> FALSE, val |-> 0]

\* InternalPage::Lookup on array a: [first, second] = (child page id, index);
\* on an equal key the pair is (array_[mid].second, j)
RECURSIVE InternalSearch(_, _, _, _)
InternalSearch(a, key, i, j) ==
  IF i > j THEN [first |-> a[j + 1].second, second |-> j]
  ELSE LET mid == i + (j - i) \div 2
       IN  IF key < a[mid + 1].first THEN InternalSearch(a, key, i, mid - 1)
           ELSE IF key > a[mid + 1].first THEN InternalSearch(a, key, mid + 1, j)
           ELSE [first |-> a[mid + 1].second, second |-> j]

\* an internal page without slots has no array_[j] to return
InternalLookup(t, p, key) ==
  IF GetSize(t, p) = 0 THEN [first |-> INVALID_PAGE_ID, second |-> -1]
  ELSE InternalSearch(t.pages[p].array_, key, 1, GetSize(t, p) - 1)

\* InsertAt of the leaf and of the internal page
InsertAt(t, p, key, val, i) ==
  IF t.fault THEN t
  ELSE IF ~(GetSize(t, p) + 1 <= GetMaxSize(t, p)) THEN Abort(t)
  ELSE IF ~(i >= 0 /\ i <= GetSize(t, p)) THEN Abort(t)
  ELSE SetArray(t, p, SubSeq(t.pages[p].array_, 1, i) \o <<MappingType(key, val)>>
                      \o SubSeq(t.pages[p].array_, i + 1, GetSize(t, p)))

\* LeafPage::Insert
LeafInsert(t, p, key, val) ==
  IF GetSize(t, p) > 0 /\ IndexOfFirstKeyEqualOrGreaterThan(t, p, key).second THEN t
  ELSE InsertAt(t, p, key, val,
                IF GetSize(t, p) > 0 THEN IndexOfFirstKeyEqualOrGreaterThan(t, p, key).first ELSE 0)

\* LeafPage::Remove(i): asserts i < n only
LeafRemove(t, p, i) ==
  IF t.fault THEN t
  ELSE IF ~(i < GetSize(t, p)) \/ i < 0 THEN Abort(t)
  ELSE SetArray(t, p, SubSeq(t.pages[p].array_, 1, i)
                      \o SubSeq(t.pages[p].array_, i + 2, GetSize(t, p)))

\* InternalPage::Remove(index) is not part of the sources: shift the tail
\* left, decrement the size
InternalRemove(t, p, index) ==
  IF t.fault THEN t
  ELSE IF ~InRange(t, p, index) THEN Abort(t)
  ELSE SetArray(t, p, SubSeq(t.pages[p].array_, 1, index)
                      \o SubSeq(t.pages[p].array_, index + 2, GetSize(t, p)))

CopyNFrom(t, dst, data) ==
  IF t.fault THEN t
  ELSE IF ~(GetSize(t, dst) + Len(data) <= GetMaxSize(t, dst)) THEN Abort(t)
  ELSE SetArray(t, dst, t.pages[dst].array_ \o data)

CopyToFront(t, dst, data) ==
  IF t.fault THEN t
  ELSE IF ~(GetSize(t, dst) + 1 <= GetMaxSize(t, dst)) THEN Abort(t)
  ELSE SetArray(t, dst, <<data>> \o t.pages[dst].array_)

CopyToBack(t, dst, data) ==
  IF t.fault THEN t
  ELSE IF ~(GetSize(t, dst) + 1 <= GetMaxSize(t, dst)) THEN Abort(t)
  ELSE SetArray(t, dst, Append(t.pages[dst].array_, data))

\* LeafPage::MoveAllTo; InternalPage::MoveAllTo is not part of the sources
\* and appends this node's entries to dst in the same way
MoveAllTo(t, src, dst) ==
  IncreaseSize(CopyNFrom(t, dst, t.pages[src].array_), src, -GetSize(t, src))

\* MoveHalfTo with the half rounded up: the upper (GetSize() + 1) / 2 slots
MoveHalfTo_RoundsUp(t, src, dst) ==
  IncreaseSize(CopyNFrom(t, dst, SubSeq(t.pages[src].array_,
                                        GetSize(t, src) - (GetSize(t, src) + 1) \div 2 + 1,
                                        GetSize(t, src))),
               src, -((GetSize(t, src) + 1) \div 2))

\* the upper GetSize() / 2 slots go to dst
MoveHalfTo(t, src, dst) ==
  IncreaseSize(CopyNFrom(t, dst, SubSeq(t.pages[src].array_,
                                        GetSize(t, src) - GetSize(t, src) \div 2 + 1,
                                        GetSize(t, src))),
               src, -(GetSize(t, src) \div 2))

MoveBackToFrontOf(t, src, dst) ==
  IF t.fault THEN t
  ELSE IF ~(GetSize(t, src) > 0) THEN Abort(t)
  ELSE IncreaseSize(CopyToFront(t, dst, t.pages[src].array_[GetSize(t, src)]), src, -1)

\* the slots 1 .. n-1 of the page after CopyToBack move down by one
ShiftFront(t, src, n) ==
  IF t.fault THEN t
  ELSE IncreaseSize(SetArray(t, src, SubSeq(t.pages[src].array_, 2, n)
                                     \o SubSeq(t.pages[src].array_, n, GetSize(t, src))),
                    src, -1)

MoveFrontToBackOf(t, src, dst) ==
  IF t.fault THEN t
  ELSE IF ~(GetSize(t, src) > 0) THEN Abort(t)
  ELSE ShiftFront(CopyToBack(t, dst, t.pages[src].array_[1]), src, GetSize(t, src))

-----------------------------------------------------------------------------
(* BPlusTree (b_plus_tree.cpp).  The operations run one at a time; the     *)
(* guards give access to the pages they were fetched for (page_guard.cpp   *)
(* is not part of the sources), so an operation is its effect on the       *)
(* pages.  guards and indexes are the deques of Insert and Remove, header  *)
(* tells whether header_wg is still held.                                  *)

\* internal_max_size below and above the sizes of InternalMaxSizes: the
\* smallest one, and one that gives a root over five leaves
SmallInternalSize == 2
WideInternalSize == 5
\* pages NewPage hands to these trees: a root over five leaves
MaxWidePages == 6

\* leaf_max_size and internal_max_size the tree is constructed with
MaxLeafSize == 3
MaxInternalSize == 3

LeafMaxSizes == 2 .. MaxLeafSize
InternalMaxSizes == 3 .. MaxInternalSize

\* BPlusTree::BPlusTree
NewTree(leaf_max_size, internal_max_size) ==
  [root_page_id_ |-> INVALID_PAGE_ID, pages |-> << >>, fault |-> FALSE,
   leaf_max_size_ |-> leaf_max_size, internal_max_size_ |-> internal_max_size]

\* the page id the next NewPage returns
NewPid(t) == Len(t.pages) + 1

\* bpm_->NewPage(&pid) followed by Init of the page
NewTreePage(t, page) == IF t.fault THEN t ELSE [t EXCEPT !.pages = Append(@, page)]

\* the descent of GetValue: the leaf the key belongs to
RECURSIVE FindLeafPage(_, _, _)
FindLeafPage(t, pid, key) ==
  IF pid = INVALID_PAGE_ID THEN pid
  ELSE IF IsLeafPage(t, pid) THEN pid
  ELSE FindLeafPage(t, InternalLookup(t, pid, key).first, key)

\* LeafLookup in the leaf found, a fault when the descent left the tree
GetValueIn(t, leaf, key) ==
  IF leaf = INVALID_PAGE_ID THEN [ok |-> FALSE, val |-> 0, fault |-> TRUE]
  ELSE [ok |-> LeafLookup(t, leaf, key).ok, val |-> LeafLookup(t, leaf, key).val,
        fault |-> FALSE]

\* BPlusTree::GetValue : [ok, val, fault]
GetValue(t, key) ==
  IF t.root_page_id_ = INVALID_PAGE_ID THEN [ok |-> FALSE, val |-> 0, fault |-> FALSE]
  ELSE GetValueIn(t, FindLeafPage(t, t.root_page_id_, key), key)

\* the state of PRE_INSERT_AND_REMOVE
NoGuards == [guards |-> << >>, indexes |-> << >>, header |-> TRUE, fault |-> FALSE]

\* IsSafe that also calls a full page (Insert) or a page at min_size (Remove) safe
IsSafe_Inclusive(t, pid, insert) ==
  IF insert THEN GetSize(t, pid) <= GetMaxSize(t, pid)
            ELSE GetSize(t, pid) >= GetMinSize(t, pid)

\* whether the descent releases the ancestors at page pid
IsSafe(t, pid, insert) ==
  IF insert THEN GetSize(t, pid) < GetMaxSize(t, pid)
            ELSE GetSize(t, pid) > GetMinSize(t, pid)

\* guards after the page pid was fetched: release_all() at a safe page
Fetched(t, pid, d, insert) ==
  IF IsSafe(t, pid, insert)
    THEN [d EXCEPT !.guards = <<pid>>, !.header = FALSE]
    ELSE [d EXCEPT !.guards = Append(d.guards, pid)]

\* the do-while descent of Insert (insert = TRUE) and Remove
RECURSIVE Descend(_, _, _, _, _)
Descend(t, pid, key, d, insert) ==
  IF pid = INVALID_PAGE_ID THEN [d EXCEPT !.fault = TRUE]
  ELSE IF IsLeafPage(t, pid) THEN Fetched(t, pid, d, insert)
  ELSE Descend(t, InternalLookup(t, pid, key).first, key,
               [Fetched(t, pid, d, insert) EXCEPT
                  !.indexes = Append(d.indexes, InternalLookup(t, pid, key).second)],
               insert)

\* SplitLeafInsert that always inserts into the old leaf
SplitLeafInsert_AlwaysCur(t, cur, pid, i, key, value) == InsertAt(t, cur, key, value, i)

\* Insert lines 120-132: the full leaf cur is split into cur and the new page pid
SplitLeafInsert(t, cur, pid, i, key, value) ==
  IF i <= GetSize(t, cur)
    THEN InsertAt(t, cur, key, value, i)
    ELSE InsertAt(t, pid, key, value, i - GetSize(t, cur))

SplitLeafLink(t, cur, pid) ==
  SetNextPageId(SetNextPageId(t, pid, GetNextPageId(t, cur)), cur, pid)

SplitLeaf(t, cur, pid, i, key, value) ==
  SplitLeafInsert(
    SplitLeafLink(MoveHalfTo(NewTreePage(t, LeafInit(t.leaf_max_size_)), cur, pid), cur, pid),
    cur, pid, i, key, value)

\* Insert lines 147-158: the full internal page cur is split
SplitInternalInsert(t, cur, pid, i, up_key, up_pid) ==
  IF i < GetSize(t, cur)
    THEN InsertAt(t, cur, up_key, up_pid, i + 1)
    ELSE InsertAt(t, pid, up_key, up_pid, i - GetSize(t, cur) + 1)

SplitInternalBalance(t, cur, pid) ==
  IF t.fault THEN t
  ELSE IF GetSize(t, pid) < GetMinSize(t, pid) THEN MoveBackToFrontOf(t, cur, pid)
  ELSE t

SplitInternal(t, cur, pid, i, up_key, up_pid) ==
  SplitInternalBalance(
    SplitInternalInsert(
      MoveHalfTo(NewTreePage(t, InternalInit(t.internal_max_size_)), cur, pid),
      cur, pid, i, up_key, up_pid),
    cur, pid)

\* Insert lines 136-168: the pair up = (KeyAt(0) of page pid, pid) goes to the
\* guarded ancestors gs, bottom to top, and to a new root when none is left
RECURSIVE InsertIntoParent(_, _, _, _, _, _)
InsertIntoParent(t, gs, indexes, header, last_pid, pid) ==
  IF t.fault THEN [t |-> t, ok |-> TRUE]
  ELSE IF Len(gs) = 0
    THEN [t |-> IF ~header THEN Abort(t)
                ELSE [NewTreePage(t, InternalInitRoot(t.internal_max_size_, last_pid,
                                                      KeyAt(t, pid, 0), pid))
                        EXCEPT !.root_page_id_ = NewPid(t)],
          ok |-> TRUE]
  ELSE IF GetSize(t, Back(gs)) < GetMaxSize(t, Back(gs))
    THEN [t |-> InsertAt(t, Back(gs), KeyAt(t, pid, 0), pid, Back(indexes) + 1),
          ok |-> TRUE]
  ELSE InsertIntoParent(
         SplitInternal(t, Back(gs), NewPid(t), Back(indexes), KeyAt(t, pid, 0), pid),
         PopBack(gs), PopBack(indexes), header, Back(gs), NewPid(t))

\* Insert lines 108-135: the leaf at the back of the guards
InsertIntoLeaf(t, d, leaf, res, key, value) ==
  IF res.second THEN [t |-> t, ok |-> FALSE]
  ELSE IF GetSize(t, leaf) < GetMaxSize(t, leaf)
    THEN [t |-> InsertAt(t, leaf, key, value, res.first), ok |-> TRUE]
  ELSE InsertIntoParent(SplitLeaf(t, leaf, NewPid(t), res.first, key, value),
                        PopBack(d.guards), d.indexes, d.header, leaf, NewPid(t))

InsertDescended(t, d, key, value) ==
  IF d.fault THEN [t |-> Abort(t), ok |-> FALSE]
  ELSE InsertIntoLeaf(t, d, Back(d.guards),
                      IndexOfFirstKeyEqualOrGreaterThan(t, Back(d.guards), key), key, value)

\* BPlusTree::Insert : [t, ok]
Insert(t, key, value) ==
  IF t.root_page_id_ = INVALID_PAGE_ID
    THEN [t |-> [LeafInsert(NewTreePage(t, LeafInit(t.leaf_max_size_)), NewPid(t), key, value)
                   EXCEPT !.root_page_id_ = NewPid(t)],
          ok |-> TRUE]
    ELSE InsertDescended(t, Descend(t, t.root_page_id_, key, NoGuards, TRUE), key, value)

\* header_page_id_ : the page that holds root_page_id_
HeaderPageId == 0

\* the pages the do-while descent of Insert and Remove calls FetchPageWrite
\* for, top to bottom
RECURSIVE DescentFetches(_, _, _)
DescentFetches(t, pid, key) ==
  IF pid = INVALID_PAGE_ID THEN << >>
  ELSE IF IsLeafPage(t, pid) THEN <<pid>>
  ELSE <<pid>> \o DescentFetches(t, InternalLookup(t, pid, key).first, key)

\* every page Insert(key) calls FetchPageWrite for when the tree has a root:
\* the header in PRE_INSERT_AND_REMOVE, then the descent
InsertFetches(t, key) == <<HeaderPageId>> \o DescentFetches(t, t.root_page_id_, key)

\* every page Remove(key) calls FetchPageWrite for: the header, and the
\* descent when the tree has a root
RemoveFetches(t, key) ==
  IF t.root_page_id_ = INVALID_PAGE_ID THEN <<HeaderPageId>> ELSE InsertFetches(t, key)

\* the fetched pages that are still write-latched and pinned once every
\* guard of the call is dropped or destroyed: a guard releases the page it
\* holds, and only that
LatchedAfterReturn(fetches) ==
  {fetches[i] : i \in {j \in 1 .. Len(fetches) :
                         FetchPageWriteGuardPage(fetches[j]) # fetches[j]}}

\* the pages the calling thread holds the exclusive latch of while Insert or
\* Remove of key writes: FetchPageWrite is the only call that takes WLock
\* (FetchPageBasic, NewPage and the guard constructors take no latch)
WriteLatched(t, key) ==
  IF t.root_page_id_ = INVALID_PAGE_ID THEN {HeaderPageId}
  ELSE {InsertFetches(t, key)[i] : i \in 1 .. Len(InsertFetches(t, key))}

\* the pages whose content (entries, size, next_page_id) differs between t
\* and t2, the pages created in between included
WrittenPages(t, t2) ==
  {p \in 1 .. Len(t2.pages) : p > Len(t.pages) \/ t2.pages[p] # t.pages[p]}

\* BORROW: one slot of the sibling moves to cur and the parent's key is set
\* from the page that now starts with the moved boundary
SetParentKey(t, parent, index, from, ndebug) ==
  SetKeyAt(CheckIndex(t, from, 0), parent, index, KeyAt(t, from, 0), ndebug)

BORROW(t, parent, cur, sibling, childIndex, i, ndebug) ==
  IF i = 0
    THEN SetParentKey(MoveBackToFrontOf(t, sibling, cur), parent, childIndex, cur, ndebug)
    ELSE SetParentKey(MoveFrontToBackOf(t, sibling, cur), parent, childIndex + 1, sibling, ndebug)

\* one round of the loop of Borrow, with indexes[i] = sibling_index : [t, ok]
BorrowFrom(t, parent, child, childIndex, i, sibling_index, ndebug) ==
  IF sibling_index = -1 THEN [t |-> t, ok |-> FALSE]
  ELSE IF ~InRange(t, parent, sibling_index) THEN [t |-> Abort(t), ok |-> FALSE]
  ELSE IF ~CanBorrow(t, ValueAt(t, parent, sibling_index)) THEN [t |-> t, ok |-> FALSE]
  ELSE [t |-> BORROW(t, parent, child, ValueAt(t, parent, sibling_index),
                     childIndex, i, ndebug),
        ok |-> TRUE]

BorrowSecond(b, parent, child, childIndex, ndebug) ==
  IF b.ok \/ b.t.fault THEN b
  ELSE BorrowFrom(b.t, parent, child, childIndex, 1,
                  IF childIndex < GetSize(b.t, parent) - 1 THEN childIndex + 1 ELSE -1,
                  ndebug)

\* BPlusTree::Borrow : [t, ok]; leaf and internal pages move slots alike
Borrow(t, parent, child, childIndex, ndebug) ==
  BorrowSecond(BorrowFrom(t, parent, child, childIndex, 0,
                          IF childIndex > 0 THEN childIndex - 1 ELSE -1, ndebug),
               parent, child, childIndex, ndebug)

\* Merge lines 279-289: the leaf chain, or slot 0's key of the right page
MergeLink(t, parent, cur, sibling, r, childIndex, isChildLeaf, ndebug) ==
  IF isChildLeaf
    THEN IF r = childIndex
           THEN SetNextPageId(t, sibling, GetNextPageId(t, cur))
           ELSE SetNextPageId(t, cur, GetNextPageId(t, sibling))
    ELSE SetKeyAt(CheckIndex(t, parent, r), IF r = childIndex THEN cur ELSE sibling,
                  0, KeyAt(t, parent, r), ndebug)

\* MERGE: the right page's slots go to the left page
MERGE(t, cur, sibling, r, childIndex) ==
  IF t.fault THEN t
  ELSE IF r = childIndex THEN MoveAllTo(t, cur, sibling)
  ELSE MoveAllTo(t, sibling, cur)

MergeWith(t, parent, cur, sibling, r, childIndex, isChildLeaf, ndebug) ==
  InternalRemove(
    MERGE(MergeLink(t, parent, cur, sibling, r, childIndex, isChildLeaf, ndebug),
          cur, sibling, r, childIndex),
    parent, r)

\* the sibling of Merge: slot l = r - 1 when the child is at r, else slot r
MergeSiblingIndex(l, childIndex) == IF l + 1 = childIndex THEN l ELSE l + 1

MergeAt(t, parent, child, childIndex, l, isChildLeaf, ndebug) ==
  IF ~InRange(t, parent, MergeSiblingIndex(l, childIndex)) THEN Abort(t)
  ELSE MergeWith(t, parent, child, ValueAt(t, parent, MergeSiblingIndex(l, childIndex)),
                 l + 1, childIndex, isChildLeaf, ndebug)

\* BPlusTree::Merge; a child without slots only leaves the parent
Merge(t, parent, child, childIndex, isChildLeaf, ndebug) ==
  IF t.fault THEN t
  ELSE IF GetSize(t, child) # 0
    THEN MergeAt(t, parent, child, childIndex,
                 IF childIndex > 0 THEN childIndex - 1 ELSE childIndex, isChildLeaf, ndebug)
  ELSE InternalRemove(t, parent, childIndex)

\* Remove lines 219-227: the page left at the front of the guards
RemoveAtTop(t, wg, header) ==
  IF GetSize(t, wg) >= GetMinSize(t, wg) \/ IsLeafPage(t, wg) THEN t
  ELSE IF GetSize(t, wg) = 1
    THEN IF ~header THEN Abort(t) ELSE [t EXCEPT !.root_page_id_ = ValueAt(t, wg, 0)]
  ELSE t

\* Remove lines 205-218: borrow, else merge and go on with the parent
RECURSIVE Rebalance(_, _, _, _, _, _)
RECURSIVE Rebalanced(_, _, _, _, _, _, _)
Rebalance(t, gs, indexes, header, isChildLeaf, ndebug) ==
  IF t.fault THEN t
  ELSE IF Len(gs) >= 2
    THEN Rebalanced(Borrow(t, gs[Len(gs) - 1], Back(gs), Back(indexes), ndebug),
                    t, gs, indexes, header, isChildLeaf, ndebug)
  ELSE RemoveAtTop(t, Back(gs), header)

Rebalanced(b, t, gs, indexes, header, isChildLeaf, ndebug) ==
  IF b.ok \/ b.t.fault THEN b.t
  ELSE Rebalance(Merge(b.t, gs[Len(gs) - 1], Back(gs), Back(indexes), isChildLeaf, ndebug),
                 PopBack(gs), PopBack(indexes), header, FALSE, ndebug)

RemovedFromLeaf(t, d, leaf, ndebug) ==
  IF t.fault \/ GetSize(t, leaf) >= GetMinSize(t, leaf) THEN t
  ELSE Rebalance(t, d.guards, d.indexes, d.header, TRUE, ndebug)

RemoveFromLeaf(t, d, leaf, res, ndebug) ==
  IF ~res.second THEN t
  ELSE RemovedFromLeaf(LeafRemove(t, leaf, res.first), d, leaf, ndebug)

RemoveDescended(t, d, key, ndebug) ==
  IF d.fault THEN Abort(t)
  ELSE RemoveFromLeaf(t, d, Back(d.guards),
                      IndexOfFirstKeyEqualOrGreaterThan(t, Back(d.guards), key), ndebug)

\* BPlusTree::Remove, in a build with (ndebug) or without NDEBUG
TreeRemove(t, key, ndebug) ==
  IF t.root_page_id_ = INVALID_PAGE_ID THEN t
  ELSE RemoveDescended(t, Descend(t, t.root_page_id_, key, NoGuards, FALSE), key, ndebug)

-----------------------------------------------------------------------------
(* IndexIterator (index_iterator.cpp): a scan from Begin() to IsEnd().     *)

\* page_ = nullptr
NullPage == 0

\* ITERATOR_CONSTRUCTOR with ValueAt(0): the leftmost leaf
RECURSIVE LeftmostLeaf(_, _)
LeftmostLeaf(t, pid) ==
  IF pid = INVALID_PAGE_ID THEN NullPage
  ELSE IF IsLeafPage(t, pid) THEN pid
  ELSE LeftmostLeaf(t, ValueAt(t, pid, 0))

IsEnd(t, page_, i_) ==
  ~(page_ # NullPage /\ (i_ < GetSize(t, page_) \/ GetNextPageId(t, page_) # INVALID_PAGE_ID))

\* for (it = Begin(); !it.IsEnd(); ++it) *it  : the keys read, and whether
\* At(i_) was called with i_ outside [0, size)
RECURSIVE Iterate(_, _, _, _)
Iterate(t, page_, i_, out) ==
  IF IsEnd(t, page_, i_) THEN [keys |-> out, fault |-> FALSE, done |-> TRUE]
  ELSE IF ~InRange(t, page_, i_) THEN [keys |-> out, fault |-> TRUE, done |-> TRUE]
  ELSE IF i_ < GetSize(t, page_) - 1
    THEN Iterate(t, page_, i_ + 1, Append(out, KeyAt(t, page_, i_)))
  ELSE Iterate(t, IF GetNextPageId(t, page_) = INVALID_PAGE_ID THEN NullPage
                  ELSE GetNextPageId(t, page_),
               0, Append(out, KeyAt(t, page_, i_)))

NoScan == [keys |-> << >>, fault |-> FALSE, done |-> FALSE]

\* the iterator's position as its caller sees it: IsEnd(), else operator*
\* (At(i_) asserts 0 <= i_ < size), else the key of the entry
Position(t, page_, i_) ==
  IF IsEnd(t, page_, i_) THEN [end |-> TRUE, key |-> -1, fault |-> FALSE]
  ELSE IF ~InRange(t, page_, i_) THEN [end |-> FALSE, key |-> -1, fault |-> TRUE]
  ELSE [end |-> FALSE, key |-> KeyAt(t, page_, i_), fault |-> FALSE]

\* IndexIterator(header_page_id, bpm, key, comparator) on a tree with a root:
\* the descent by Lookup(key).first, then i_ from the leaf
BeginAt(t, leaf, key) ==
  IF leaf = INVALID_PAGE_ID THEN [end |-> FALSE, key |-> -1, fault |-> TRUE]
  ELSE Position(t, leaf, IndexOfFirstKeyEqualOrGreaterThan(t, leaf, key).first)

\* Begin(key): what the returned iterator shows.  Without a root the
\* constructor returns before page_ is set, and IsEnd() tests an
\* uninitialised pointer: it is null, or it is not and is dereferenced
Begin(t, key) ==
  IF t.root_page_id_ = INVALID_PAGE_ID
    THEN {[end |-> TRUE, key |-> -1, fault |-> FALSE],
          [end |-> FALSE, key |-> -1, fault |-> TRUE]}
    ELSE {BeginAt(t, FindLeafPage(t, t.root_page_id_, key), key)}

\* the pages the iterator calls FetchPage for from Begin() to IsEnd(): the
\* descent to the leftmost leaf, then every next leaf
RECURSIVE DescentToLeftmost(_, _)
DescentToLeftmost(t, pid) ==
  IF pid = INVALID_PAGE_ID THEN << >>
  ELSE IF IsLeafPage(t, pid) THEN <<pid>>
  ELSE <<pid>> \o DescentToLeftmost(t, ValueAt(t, pid, 0))

RECURSIVE NextLeaves(_, _)
NextLeaves(t, leaf) ==
  IF leaf = NullPage \/ GetNextPageId(t, leaf) = INVALID_PAGE_ID THEN << >>
  ELSE <<GetNextPageId(t, leaf)>> \o NextLeaves(t, GetNextPageId(t, leaf))

ScanFetches(t) ==
  DescentToLeftmost(t, t.root_page_id_) \o NextLeaves(t, LeftmostLeaf(t, t.root_page_id_))

\* the pins of page p the scan has not given back: the iterator calls
\* FetchPage and never UnpinPage
PinsLeftByScan(t, p) == Cardinality({i \in 1 .. Len(ScanFetches(t)) : ScanFetches(t)[i] = p})

\* the shared latches the iterator holds: page id -> number of RLatch calls
\* not yet matched by an RUnlatch
NoLatches(t) == [p \in 1 .. Len(t.pages) |-> 0]
RLatch(held, p) == [held EXCEPT ![p] = @ + 1]
RUnlatch(held, p) == [held EXCEPT ![p] = @ - 1]

\* the while loop of ITERATOR_CONSTRUCTOR with page_ latched: at an internal
\* page the child is latched and page_ unlatched; the loop breaks at a leaf
RECURSIVE ConstructorDescent(_, _, _, _, _)
RECURSIVE ConstructorStep(_, _, _, _, _, _)
ConstructorDescent(t, page_, by_key, key, held) ==
  IF page_ \notin 1 .. Len(t.pages) THEN held
  ELSE IF IsLeafPage(t, page_) THEN held
  ELSE ConstructorStep(t, page_, by_key, key, held,
         IF by_key THEN InternalLookup(t, page_, key).first ELSE ValueAt(t, page_, 0))

ConstructorStep(t, page_, by_key, key, held, child) ==
  IF child \notin 1 .. Len(t.pages) THEN held
  ELSE ConstructorDescent(t, child, by_key, key, RUnlatch(RLatch(held, child), page_))

\* ITERATOR_CONSTRUCTOR on a tree with a root (the header's guard is dropped)
IteratorConstructor(t, by_key, key) ==
  ConstructorDescent(t, t.root_page_id_, by_key, key, RLatch(NoLatches(t), t.root_page_id_))

\* Begin(): the latches held when the constructor returns
LatchesAfterBegin(t) == IteratorConstructor(t, FALSE, 0)

\* Begin(key): the constructor latches and unlatches the leaf once more to
\* read i_
LatchesAfterBeginAt(t, leaf, key) ==
  IF leaf = INVALID_PAGE_ID THEN IteratorConstructor(t, TRUE, key)
  ELSE RUnlatch(RLatch(IteratorConstructor(t, TRUE, key), leaf), leaf)

-----------------------------------------------------------------------------
(* The tree's callers (SpecTree, SpecInsert): live is the map from the     *)
(* keys inserted and not removed since to the value inserted.              *)

TreeInserted(res, key, value, max_pages) ==
  /\ Len(res.t.pages) <= max_pages
  /\ tree' = res.t
  /\ live' = IF res.ok /\ ~res.t.fault THEN Put(live, key, value) ELSE live
  /\ last' = Call("Insert", -1, FALSE, res.ok, -1, res.t.fault)
  /\ iter' = NoScan

TreeInsert(key, value, max_pages) ==
  /\ ~tree.fault
  /\ TreeInserted(Insert(tree, key, value), key, value, max_pages)
  /\ UNCHANGED <<replacer, poolVars, guardVars>>

TreeRemoveKey(key, ndebug) ==
  /\ ~tree.fault
  /\ tree' = TreeRemove(tree, key, ndebug)
  /\ live' = Erase(live, key)
  /\ last' = Call("Remove", -1, FALSE, TRUE, -1, tree'.fault)
  /\ iter' = NoScan
  /\ UNCHANGED <<replacer, poolVars, guardVars>>

TreeGetValued(res, key) ==
  last' = Call("GetValue", key, FALSE, res.ok, res.val, res.fault)

TreeGetValue(key) ==
  /\ ~tree.fault
  /\ TreeGetValued(GetValue(tree, key), key)
  /\ UNCHANGED <<replacer, poolVars, guardVars, treeVars>>

\* it = Begin(key), then it.IsEnd() and *it
TreeBegin(key) ==
  /\ ~tree.fault
  /\ \E b \in Begin(tree, key) : last' = Call("Begin", key, b.end, ~b.fault, b.key, b.fault)
  /\ UNCHANGED <<replacer, poolVars, guardVars, treeVars>>

\* the index scan; Begin() of a tree without root leaves page_ uninitialised,
\* so the scan ends at once or reads through a wild pointer
TreeScan ==
  /\ ~tree.fault /\ ~iter.done
  /\ IF tree.root_page_id_ = INVALID_PAGE_ID
       THEN \E wild \in BOOLEAN : iter' = [keys |-> << >>, fault |-> wild, done |-> TRUE]
       ELSE iter' = Iterate(tree, LeftmostLeaf(tree, tree.root_page_id_), 0, << >>)
  /\ UNCHANGED <<replacer, poolVars, guardVars, tree, live, last>>

NextTree ==
  \/ \E key \in MixedKeys, value \in Values : TreeInsert(key, value, MaxMixedPages)
  \/ \E key \in MixedKeys, ndebug \in BOOLEAN : TreeRemoveKey(key, ndebug)
  \/ \E key \in MixedKeys : TreeGetValue(key)
  \/ TreeScan

\* distinct-key inserts and point queries only
NextInsert ==
  \/ \E key \in Keys \ DOMAIN live, value \in Values : TreeInsert(key, value, MaxTreePages)
  \/ \E key \in Keys : TreeGetValue(key)
  \/ \E key \in Keys : TreeBegin(key)

\* a caller that fills a tree by inserts of distinct keys and then empties
\* it by removes of live keys
NextWide ==
  \/ \E key \in Keys \ DOMAIN live : last.op # "Remove" /\ TreeInsert(key, 1, MaxWidePages)
  \/ \E key \in DOMAIN live, ndebug \in BOOLEAN : TreeRemoveKey(key, ndebug)

-----------------------------------------------------------------------------
(* Initial states. *)

\* BufferPoolManager::BufferPoolManager
InitPool ==
  /\ pages = [f \in Frames |-> FreshPage]
  /\ page_table = EmptyMap
  /\ free_list = [i \in 1 .. PoolSize |-> i - 1]
  /\ next_page_id = 0
  /\ disk = [p \in PageIds |-> 0]
  /\ replacer = NewReplacer(PoolSize, MaxK)
  /\ last = NoCall

InitPoolIdle ==
  /\ pages = EmptyMap
  /\ page_table = EmptyMap
  /\ free_list = << >>
  /\ next_page_id = 0
  /\ disk = EmptyMap

InitGuardIdle ==
  /\ latch = EmptyMap
  /\ guards = EmptyMap
  /\ tpc = EmptyMap

InitTreeIdle ==
  /\ tree = EmptyMap
  /\ live = EmptyMap
  /\ iter = EmptyMap

\* LRUKReplacer::LRUKReplacer
InitReplacer ==
  /\ \E k \in KSet : replacer = NewReplacer(ReplacerFrames, k)
  /\ last = NoCall

InitGuard ==
  /\ latch = [f \in Frames |-> FreeLatch]
  /\ guards = EmptyMap
  /\ tpc = [t \in Threads |-> Idle]

Init == InitPool /\ InitGuardIdle /\ InitTreeIdle

Spec == Init /\ [][NextPool]_vars

InitSpecReplacer == InitReplacer /\ InitPoolIdle /\ InitGuardIdle /\ InitTreeIdle

SpecReplacer == InitSpecReplacer /\ [][NextReplacer]_vars

InitSpecGuard == InitPool /\ InitGuard /\ InitTreeIdle

\* BPlusTree::BPlusTree on a header page of its own
InitTree ==
  /\ \E leaf_max_size \in LeafMaxSizes, internal_max_size \in InternalMaxSizes :
       tree = NewTree(leaf_max_size, internal_max_size)
  /\ live = EmptyMap
  /\ iter = NoScan
  /\ last = NoCall
  /\ replacer = EmptyMap

InitSpecTree == InitTree /\ InitPoolIdle /\ InitGuardIdle

SpecTree == InitSpecTree /\ [][NextTree]_vars

SpecInsert == InitSpecTree /\ [][NextInsert]_vars

InitSpecWide ==
  /\ \E internal_max_size \in {SmallInternalSize, WideInternalSize} :
       tree = NewTree(2, internal_max_size)
  /\ live = EmptyMap /\ iter = NoScan /\ last = NoCall /\ replacer = EmptyMap
  /\ InitPoolIdle /\ InitGuardIdle

SpecWide == InitSpecWide /\ [][NextWide]_vars

SpecGuard == InitSpecGuard /\ [][NextGuard]_vars

\* LRUKReplacer(InfFrames, 2)
InitSpecInf ==
  /\ replacer = NewReplacer(InfFrames, 2)
  /\ last = NoCall
  /\ InitPoolIdle /\ InitGuardIdle /\ InitTreeIdle

SpecInf == InitSpecInf /\ [][NextInf]_vars

\* BufferPoolManager(ScenarioPoolSize, disk_manager, replacer_k) on an empty disk
InitSpecPoolScenario ==
  /\ pages = [f \in 0 .. (ScenarioPoolSize - 1) |-> FreshPage]
  /\ page_table = EmptyMap
  /\ free_list = [i \in 1 .. ScenarioPoolSize |-> i - 1]
  /\ next_page_id = 0
  /\ disk = [p \in ScenarioPageIds |-> 0]
  /\ replacer = NewReplacer(ScenarioPoolSize, MaxK)
  /\ last = NoCall
  /\ InitGuardIdle /\ InitTreeIdle

SpecPoolScenario == InitSpecPoolScenario /\ [][NextPoolScenario]_vars

\* LRUKReplacer(ScenarioFrames + 1, 2)
InitSpecScenario ==
  /\ replacer = NewReplacer(ScenarioFrames + 1, 2)
  /\ last = NoCall
  /\ InitPoolIdle /\ InitGuardIdle /\ InitTreeIdle

SpecScenario == InitSpecScenario /\ [][NextScenario]_vars

-----------------------------------------------------------------------------
(* Claims about the buffer pool (Spec). *)

Resident == DOMAIN page_table

EvictableFrames(r) == {f \in Tracked(r) : r.node_store_[f].is_evictable_}

PinnedPages == {p \in Resident : pages[page_table[p]].pin_count_ > 0}

\* C1: a frame whose pin count is > 0 is tracked and non-evictable in the
\* replacer, and no step gives a frame with pin count > 0 to another page id.
C1_PinnedFrameNeverReused ==
  /\ [](\A f \in Frames : pages[f].pin_count_ > 0 =>
          /\ f \in Tracked(replacer)
          /\ ~replacer.node_store_[f].is_evictable_)
  /\ [][\A f \in Frames : pages[f].pin_count_ > 0 =>
          pages'[f].page_id_ = pages[f].page_id_]_vars

\* a NewPage has just reused a frame while another frame stays pinned
C1_Witness ==
  /\ last.op = "NewPage" /\ last.ok /\ last.ret >= PoolSize
  /\ \E f \in Frames : pages[f].pin_count_ > 0 /\ pages[f].page_id_ # last.ret

\* C4: dirty durability.  A successful UnpinPage(_, TRUE) sets the dirty bit,
\* which only FlushPage or the reuse of the frame clears; a dirty frame that
\* is given to another page id has its content on disk under its old page id
\* in the same step; the disk copy of a non-resident page never changes; and
\* FetchPage of a non-resident page installs the disk copy.
C4_DirtyDurability ==
  [][/\ (last'.op = "UnpinPage" /\ last'.ok /\ last'.flag) =>
          pages'[page_table[last'.arg]].is_dirty_
     /\ \A f \in Frames :
          (pages[f].is_dirty_ /\ ~pages'[f].is_dirty_) =>
             \/ last'.op = "FlushPage" /\ last'.arg = pages[f].page_id_
             \/ pages'[f].page_id_ # pages[f].page_id_
     /\ \A f \in Frames :
          (pages[f].is_dirty_ /\ pages'[f].page_id_ # pages[f].page_id_) =>
             disk'[pages[f].page_id_] = pages[f].data_
     /\ \A p \in PageIds : p \notin Resident => disk'[p] = disk[p]
     /\ \A p \in PageIds :
          (p < next_page_id /\ p \notin Resident /\ p \in DOMAIN page_table') =>
             pages'[page_table'[p]].data_ = disk[p]
    ]_vars

\* a page written and evicted has been fetched back with its content
C4_Witness ==
  /\ last.op = "FetchPage" /\ last.ok /\ next_page_id > PoolSize
  /\ pages[last.ret].pin_count_ = 1 /\ ~pages[last.ret].is_dirty_
  /\ pages[last.ret].data_ # 0
  /\ disk[last.arg] = pages[last.ret].data_

\* C9: a FetchPage returns absent only when the pinned pages together with
\* the requested one are more than pool_size, and a FetchPage that returns a
\* frame returns the frame that holds the requested page.
C9_FetchSucceedsWithinPoolSize ==
  last.op = "FetchPage" =>
    IF last.ok
      THEN /\ last.arg \in Resident /\ page_table[last.arg] = last.ret
           /\ pages[last.ret].page_id_ = last.arg
           /\ pages[last.ret].pin_count_ > 0
      ELSE Cardinality(PinnedPages \cup {last.arg}) > PoolSize

\* a FetchPage of a non-resident page succeeded with every frame then pinned
C9_Witness ==
  /\ last.op = "FetchPage" /\ last.ok /\ next_page_id > PoolSize
  /\ pages[last.ret].pin_count_ = 1
  /\ Cardinality(PinnedPages) = PoolSize

\* the frame a successful NewPage or FetchPage has returned
ReturnedFrame(call, pt) == IF call.op = "NewPage" THEN pt[call.ret] ELSE call.ret

\* C12: NewPage, and FetchPage of a non-resident page, return absent exactly
\* when the free list is empty and the replacer holds no evictable frame;
\* otherwise they return the front of the free list when there is one (and
\* evict nothing), else a frame that was evictable.
C12_AbsentIffNoFreeAndNoEvictable ==
  [][(\/ last'.op = "NewPage"
      \/ last'.op = "FetchPage" /\ last'.arg \notin Resident)
       => /\ ~last'.threw
          /\ ~last'.ok <=> (Len(free_list) = 0 /\ EvictableFrames(replacer) = {})
          /\ (last'.ok /\ Len(free_list) > 0) =>
                /\ ReturnedFrame(last', page_table') = Head(free_list)
                /\ free_list' = Tail(free_list)
                /\ Resident \subseteq DOMAIN page_table'
          /\ (last'.ok /\ Len(free_list) = 0) =>
                /\ ReturnedFrame(last', page_table') \in EvictableFrames(replacer)
                /\ free_list' = free_list]_vars

\* a FetchPage of a non-resident page has returned absent, and a NewPage has
\* taken a victim's frame before
C12_Witness ==
  /\ last.op = "FetchPage" /\ ~last.ok /\ last.arg \notin Resident
  /\ Len(free_list) = 0 /\ EvictableFrames(replacer) = {}
  /\ next_page_id > PoolSize

\* C13: UnpinPage returns false and changes nothing when the page is not
\* resident or its pin count is 0; otherwise it returns true, decrements the
\* pin count by one and makes the frame evictable iff the count reached 0.
\* No pin count is ever negative.
C13_UnpinPageContract ==
  /\ [](\A f \in Frames : pages[f].pin_count_ >= 0)
  /\ [][last'.op = "UnpinPage" =>
          IF last'.arg \notin Resident \/ pages[page_table[last'.arg]].pin_count_ = 0
            THEN /\ ~last'.ok
                 /\ UNCHANGED <<replacer, poolVars>>
            ELSE LET f == page_table[last'.arg]
                 IN  /\ last'.ok
                     /\ pages'[f].pin_count_ = pages[f].pin_count_ - 1
                     /\ \A g \in Frames \ {f} : pages'[g] = pages[g]
                     /\ f \in EvictableFrames(replacer') <=> pages'[f].pin_count_ = 0
                     /\ \A g \in Frames \ {f} :
                           g \in EvictableFrames(replacer') <=> g \in EvictableFrames(replacer)
         ]_vars

\* a second UnpinPage of a page whose pin count is already 0 returned false
C13_Witness ==
  /\ last.op = "UnpinPage" /\ ~last.ok
  /\ last.arg \in Resident
  /\ pages[page_table[last.arg]].pin_count_ = 0
  /\ page_table[last.arg] \in EvictableFrames(replacer)

\* C14: FlushPage of a resident page writes the frame's content to disk
\* under that page id, clears the dirty bit, returns true and changes nothing
\* else (pin counts, page table, free list, replacer, other disk pages); on
\* a non-resident page it returns false and changes nothing.
C14_FlushPageContract ==
  [][last'.op = "FlushPage" =>
       IF last'.arg \in Resident
         THEN LET f == page_table[last'.arg]
              IN  /\ last'.ok
                  /\ disk' = [disk EXCEPT ![last'.arg] = pages[f].data_]
                  /\ pages' = [pages EXCEPT ![f].is_dirty_ = FALSE]
                  /\ UNCHANGED <<replacer, page_table, free_list, next_page_id>>
         ELSE /\ ~last'.ok
              /\ UNCHANGED <<replacer, poolVars>>
    ]_vars

\* a pinned page that was written has been flushed before any eviction
C14_Witness ==
  /\ last.op = "FlushPage" /\ last.ok
  /\ next_page_id <= PoolSize
  /\ pages[page_table[last.arg]].pin_count_ > 0
  /\ pages[page_table[last.arg]].data_ # 0
  /\ disk[last.arg] = pages[page_table[last.arg]].data_
  /\ ~pages[page_table[last.arg]].is_dirty_

\* the sum of the pin counts of the frames fs
RECURSIVE SumPinCount(_, _)
SumPinCount(pgs, fs) ==
  IF fs = {} THEN 0
  ELSE LET f == CHOOSE x \in fs : TRUE
       IN  pgs[f].pin_count_ + SumPinCount(pgs, fs \ {f})

PinnedFrames == {f \in Frames : pages[f].pin_count_ > 0}

\* C21 as stated: the sum of the pin counts of all frames is at most
\* pool_size minus the length of the free list.
C21_SumOfPinCountsBounded ==
  SumPinCount(pages, Frames) <= PoolSize - Len(free_list)

\* C21 amended: the number of frames whose pin count is > 0 is at most
\* pool_size minus the length of the free list (a frame on the free list is
\* not pinned), while one page may be pinned more than once.
C21_PinnedFramesBounded ==
  /\ Cardinality(PinnedFrames) <= PoolSize - Len(free_list)
  /\ \A i \in 1 .. Len(free_list) : pages[free_list[i]].pin_count_ = 0

\* a page is pinned twice while a frame is still free
C21_Witness ==
  /\ Len(free_list) > 0
  /\ Cardinality(PinnedFrames) = PoolSize - Len(free_list)
  /\ \E f \in Frames : pages[f].pin_count_ >= 2

\* the states of the example run: every frame f but frame 0 holds page f
\* with one pin
OthersPinnedOnce ==
  \A f \in 1 .. (ScenarioPoolSize - 1) :
    pages[f].page_id_ = f /\ pages[f].pin_count_ = 1

\* ... after the first pool_size NewPage calls
AfterFill ==
  /\ next_page_id = ScenarioPoolSize /\ OthersPinnedOnce
  /\ pages[0].page_id_ = 0 /\ pages[0].pin_count_ = 1

\* ... after UnpinPage(0, true)
AfterUnpin ==
  /\ next_page_id = ScenarioPoolSize /\ OthersPinnedOnce
  /\ pages[0].page_id_ = 0 /\ pages[0].pin_count_ = 0 /\ pages[0].is_dirty_

\* ... after the NewPage that reused frame 0
AfterReuse ==
  /\ next_page_id = ScenarioPoolSize + 1 /\ OthersPinnedOnce
  /\ pages[0].page_id_ = ScenarioPoolSize /\ pages[0].pin_count_ = 1

\* the part of the example run up to the NewPage that reuses frame 0: the
\* first pool_size NewPage calls return 0, 1, ... in the frames of the same
\* number; NewPage then returns absent and changes nothing; after
\* UnpinPage(0, true) NewPage returns page id pool_size in frame 0 and page
\* 0's content is on disk
ScenarioUpToReuse ==
  /\ (last'.op = "NewPage" /\ next_page_id < ScenarioPoolSize) =>
        /\ last'.ok /\ last'.ret = next_page_id
        /\ page_table'[last'.ret] = next_page_id
        /\ pages'[next_page_id].pin_count_ = 1
  /\ (last'.op = "NewPage" /\ AfterFill) =>
        /\ ~last'.ok
        /\ UNCHANGED <<replacer, poolVars>>
  /\ (last'.op = "NewPage" /\ AfterUnpin) =>
        /\ last'.ok /\ last'.ret = ScenarioPoolSize
        /\ page_table'[ScenarioPoolSize] = 0
        /\ 0 \notin DOMAIN page_table'
        /\ disk'[0] = pages[0].data_
        /\ AfterReuse'

\* C23 as stated: ... and FetchPage(0) then succeeds and returns the content
\* written to page 0.
C23_PoolScenario ==
  [][/\ ScenarioUpToReuse
     /\ (last'.op = "FetchPage" /\ last'.arg = 0 /\ AfterReuse) =>
           /\ last'.ok
           /\ pages'[last'.ret].page_id_ = 0
           /\ pages'[last'.ret].data_ = disk[0]]_vars

\* C23 amended: ... and FetchPage(0) then returns absent and changes nothing,
\* since every frame is pinned again; once one of the pinned pages is
\* unpinned, FetchPage(0) succeeds in that page's frame and returns the
\* content written to page 0.
C23_PoolScenarioAmended ==
  [][/\ ScenarioUpToReuse
     /\ (last'.op = "FetchPage" /\ last'.arg = 0 /\ AfterReuse) =>
           /\ ~last'.ok
           /\ UNCHANGED <<replacer, poolVars>>
     /\ 0 \notin Resident => disk'[0] = disk[0]
     /\ (/\ last'.op = "FetchPage" /\ last'.arg = 0 /\ 0 \notin Resident
         /\ next_page_id = ScenarioPoolSize + 1
         /\ pages[0].page_id_ = ScenarioPoolSize /\ pages[0].pin_count_ = 1
         /\ Cardinality({f \in 1 .. (ScenarioPoolSize - 1) : pages[f].pin_count_ = 0}) = 1) =>
           /\ last'.ok
           /\ pages[last'.ret].pin_count_ = 0
           /\ pages'[last'.ret].page_id_ = 0
           /\ pages'[last'.ret].pin_count_ = 1
           /\ pages'[last'.ret].data_ = disk[0]]_vars

\* page 0 was written, evicted by the NewPage that reused frame 0, and has
\* been fetched back into the frame of a page unpinned since
C23_Witness ==
  /\ last.op = "FetchPage" /\ last.ok /\ last.arg = 0 /\ last.ret # 0
  /\ next_page_id = ScenarioPoolSize + 1
  /\ pages[0].page_id_ = ScenarioPoolSize /\ pages[0].pin_count_ = 1
  /\ pages[last.ret].data_ # 0 /\ pages[last.ret].data_ = disk[0]
  /\ \A f \in 0 .. (ScenarioPoolSize - 1) : pages[f].pin_count_ = 1

\* the frames on the free list, and the frames the page table maps to
FreeFrames == {free_list[i] : i \in 1 .. Len(free_list)}
MappedFrames == {page_table[p] : p \in DOMAIN page_table}

\* C31: in every reachable state of the buffer pool each frame is in exactly
\* one of the free list and the frames the replacer tracks; a frame is the
\* image of a page-table entry iff it is not in the free list; the page table
\* is injective and each mapped frame's page_id_ is its key.
C31_FramePartition ==
  /\ \A f \in Frames : (f \in FreeFrames) # (f \in Tracked(replacer))
  /\ \A f \in Frames : (f \in MappedFrames) <=> (f \notin FreeFrames)
  /\ \A p, q \in DOMAIN page_table : page_table[p] = page_table[q] => p = q
  /\ \A p \in DOMAIN page_table : pages[page_table[p]].page_id_ = p

\* a FetchPage has brought a page back into the frame of a victim
C31_Witness ==
  /\ last.op = "FetchPage" /\ last.ok /\ free_list = << >>
  /\ \E p \in PageIds : p < next_page_id /\ p \notin DOMAIN page_table
  /\ Cardinality(DOMAIN page_table) = PoolSize

\* C38: a NewPage or FetchPage call that returns absent leaves the page table,
\* the free list, every frame, the replacer, the disk and the next page id as
\* they were; a successful NewPage returns the next page id and advances it
\* by one, and no other call moves it, so the ids returned are 0, 1, 2, ...
C38_FailedCallChangesNothing ==
  [][/\ (last'.op \in {"NewPage", "FetchPage"} /\ ~last'.ok /\ ~last'.threw)
          => UNCHANGED <<replacer, pages, page_table, free_list, next_page_id, disk>>
     /\ (last'.op = "NewPage" /\ last'.ok)
          => last'.ret = next_page_id /\ next_page_id' = next_page_id + 1
     /\ ~(last'.op = "NewPage" /\ last'.ok) => next_page_id' = next_page_id]_vars

\* a NewPage has returned absent because every frame is pinned
C38_Witness ==
  /\ last.op = "NewPage" /\ ~last.ok /\ ~last.threw
  /\ free_list = << >> /\ next_page_id = PoolSize
  /\ \A f \in Frames : pages[f].pin_count_ > 0


-----------------------------------------------------------------------------
(* Claims about the replacer (SpecReplacer). *)

\* v has the maximum backward k-distance among the evictable frames of r:
\* with fewer than k accesses it has the earliest first access among those
\* with fewer than k; with k accesses every evictable frame has k accesses and
\* v has the smallest oldest retained timestamp
IsLRUKVictim(r, v) ==
  /\ v \in EvictableFrames(r)
  /\ \A g \in EvictableFrames(r) \ {v} :
       LET hv == r.node_store_[v].history_
           hg == r.node_store_[g].history_
       IN  IF Len(hv) < r.k_
             THEN Len(hg) < r.k_ => Front(hv) < Front(hg)
             ELSE Len(hg) >= r.k_ /\ Front(hv) < Front(hg)

\* C5: every successful Evict returns the evictable frame with the maximum
\* backward k-distance at the call instant.
C5_EvictReturnsMaxBackwardKDistance ==
  [][(last'.op = "Evict" /\ last'.ok) => IsLRUKVictim(replacer, last'.ret)]_vars

\* C10: Size() is the number of tracked frames whose evictable flag is set.
C10_SizeCountsEvictableFrames ==
  Size(replacer) = Cardinality(EvictableFrames(replacer))

\* C11: among evictable frames that all have fewer than k accesses, every
\* successful Evict returns the one whose earliest access is the smallest,
\* whatever accesses, SetEvictable and Remove calls came before.
C11_EvictReturnsEarliestAmongInfinite ==
  [][(/\ last'.op = "Evict" /\ last'.ok
      /\ \A f \in EvictableFrames(replacer) :
            Len(replacer.node_store_[f].history_) < replacer.k_)
       => \A f \in EvictableFrames(replacer) :
            Front(replacer.node_store_[last'.ret].history_)
              <= Front(replacer.node_store_[f].history_)]_vars

\* the frames on the two heaps of r
HeapFrames(r) ==
  {r.less_than_k_heap_[i] : i \in 1 .. Len(r.less_than_k_heap_)}
    \cup {r.equal_to_k_heap_[i] : i \in 1 .. Len(r.equal_to_k_heap_)}

\* C20: Remove(f) of an untracked frame changes nothing; of a tracked frame
\* that is not evictable it is fatal and changes nothing; of a tracked
\* evictable frame it untracks f and its history, leaving the other frames
\* as they were.  Evict returns only frames that are on a heap, and those are
\* tracked and evictable, so a removed frame is not returned until it is
\* accessed and made evictable again.
C20_RemoveUntracksTheFrame ==
  /\ [](HeapFrames(replacer) \subseteq EvictableFrames(replacer))
  /\ [][(last'.op = "Remove" /\ last'.arg \notin Tracked(replacer))
          => replacer' = replacer]_vars
  /\ [][\A f \in 0 .. (replacer.replacer_size_ - 1) :
          (RemoveAborts(replacer, f) /\ last'.arg = f /\ last'.op \in {"Remove", "abort"})
            => (last'.op = "abort" /\ last'.threw /\ replacer' = replacer)]_vars
  /\ [][(last'.op = "Remove" /\ last'.arg \in EvictableFrames(replacer))
          => /\ Tracked(replacer') = Tracked(replacer) \ {last'.arg}
             /\ last'.arg \notin HeapFrames(replacer')
             /\ \A g \in Tracked(replacer') :
                   /\ replacer'.node_store_[g].history_ = replacer.node_store_[g].history_
                   /\ replacer'.node_store_[g].is_evictable_
                        = replacer.node_store_[g].is_evictable_]_vars
  /\ [][(last'.op = "Evict" /\ last'.ok)
          => /\ last'.ret \in HeapFrames(replacer)
             /\ last'.ret \notin Tracked(replacer')]_vars

\* an evictable frame has been removed while another frame stays evictable
C20_Witness ==
  /\ last.op = "Remove" /\ last.ok
  /\ last.arg \notin Tracked(replacer)
  /\ HeapFrames(replacer) # {}

\* the frames on each heap of r, and the number of accesses r remembers of f
LtFrames(r) == {r.less_than_k_heap_[i] : i \in 1 .. Len(r.less_than_k_heap_)}
EqFrames(r) == {r.equal_to_k_heap_[i] : i \in 1 .. Len(r.equal_to_k_heap_)}
Accesses(r, f) == Len(r.node_store_[f].history_)

\* C37: Evict returns a frame with fewer than k accesses whenever such a
\* frame is evictable, even if evictable frames with k accesses exist; an
\* evictable frame is in the fewer-than-k partition until its k-th
\* RecordAccess and in the k partition from then on; a history never holds
\* more than k timestamps.
C37_FewerThanKFirst ==
  /\ [](\A f \in Tracked(replacer) : Accesses(replacer, f) <= replacer.k_)
  /\ [](\A f \in EvictableFrames(replacer) :
          /\ f \in LtFrames(replacer) <=> Accesses(replacer, f) < replacer.k_
          /\ f \in EqFrames(replacer) <=> Accesses(replacer, f) = replacer.k_)
  /\ [][(/\ last'.op = "Evict"
         /\ \E f \in EvictableFrames(replacer) : Accesses(replacer, f) < replacer.k_)
          => /\ last'.ok
             /\ last'.ret \in EvictableFrames(replacer)
             /\ Accesses(replacer, last'.ret) < replacer.k_]_vars
  /\ [][(last'.op = "RecordAccess" /\ last'.arg \in Tracked(replacer))
          => Accesses(replacer', last'.arg)
               = IF Accesses(replacer, last'.arg) < replacer.k_
                   THEN Accesses(replacer, last'.arg) + 1 ELSE replacer.k_]_vars

\* an Evict has taken a frame with fewer than k accesses while a frame with
\* k accesses was evictable, and stays so
C37_Witness ==
  /\ last.op = "Evict" /\ last.ok
  /\ LtFrames(replacer) # {} /\ EqFrames(replacer) # {}

\* C40: after any sequence of RecordAccess, SetEvictable, Remove and Evict
\* calls with valid arguments, Evict returns true exactly when a tracked frame
\* is evictable, and never reaches the "BUG." exception; every evictable
\* tracked frame is in exactly one of the two heaps, at the position its
\* back-index i_ records.
C40_EvictNeverReachesBug ==
  /\ [](\A f \in EvictableFrames(replacer) :
          LET i == replacer.node_store_[f].i_
          IN  /\ (f \in LtFrames(replacer)) # (f \in EqFrames(replacer))
              /\ f \in LtFrames(replacer)
                    => /\ i \in 0 .. (Len(replacer.less_than_k_heap_) - 1)
                       /\ replacer.less_than_k_heap_[i + 1] = f
              /\ f \in EqFrames(replacer)
                    => /\ i \in 0 .. (Len(replacer.equal_to_k_heap_) - 1)
                       /\ replacer.equal_to_k_heap_[i + 1] = f)
  /\ [][last'.op = "Evict" =>
          /\ ~last'.threw
          /\ last'.ok <=> (EvictableFrames(replacer) # {})]_vars

\* the frame the i-th Evict of the example run has to return
ScenarioVictim(i) == IF i = 1 THEN ScenarioFrames ELSE i - 1

-----------------------------------------------------------------------------
(* Claims about the page guards (SpecGuard). *)

\* C6: an exclusive latch that is held is held for a live write guard on
\* that frame, owned by the latch's holder, so that dropping the guard
\* releases the latch and returns the pin.
C6_WriteGuardOwnsItsFrame ==
  \A f \in DOMAIN latch :
    latch[f].writer # 0 => Guard(latch[f].writer, "write", f) \in DOMAIN guards

\* C7: no thread waits forever: whenever a thread is blocked in RLock or
\* WLock, some live guard holds that frame's latch and releases it when it
\* is dropped.
C7_NoThreadWaitsForever ==
  \A t \in DOMAIN tpc :
    LET f == tpc[t].frame
        blocked == \/ tpc[t].pc = "WLock" /\ latch[f] # FreeLatch
                   \/ tpc[t].pc = "RLock" /\ latch[f].writer # 0
    IN  blocked => \E g \in DOMAIN guards :
                      g.page_ = f /\ g.kind \in {"read", "write"}

\* thread t waits in RLock or WLock for a latch somebody holds
Blocked(t) ==
  \/ tpc[t].pc = "WLock" /\ latch[tpc[t].frame] # FreeLatch
  \/ tpc[t].pc = "RLock" /\ latch[tpc[t].frame].writer # 0

\* thread u is outside every call and the model has room for one more guard
\* and one more access
CanCall(u) ==
  /\ tpc[u].pc = "idle" /\ \A t \in Threads : tpc[t].pc # "fault"
  /\ NumGuards(guards) + Cardinality({t \in Threads : tpc[t].pc # "idle"}) < MaxGuards
  /\ replacer.current_timestamp_ < MaxTimestamp

\* C32: no thread waits for a frame's latch while it holds the pool's mutex:
\* FetchPageRead and FetchPageWrite pin inside FetchPage and take the latch
\* after it, so while a thread is blocked on a latch every other thread's
\* NewPage, FetchPage and UnpinPage still goes through.
C32_LatchWaitOutsideTheMutex ==
  \A t, u \in Threads :
    (Blocked(t) /\ u # t) =>
      /\ (CanCall(u) /\ next_page_id < MaxPages) => ENABLED NewPageGuarded(u)
      /\ \A p \in PageIds :
           (CanCall(u) /\ p < next_page_id) =>
              /\ ENABLED FetchPageBasic(u, p)
              /\ ENABLED FetchPageRead(u, p)
              /\ ENABLED FetchPageWrite(u, p)
      /\ \A g \in DOMAIN guards :
           (g.owner = u /\ tpc[u].pc = "idle" /\ \A v \in Threads : tpc[v].pc # "fault")
              => ENABLED Drop(u, g)

\* a thread is blocked in WLock and the other thread has made a NewPage since
C32_Witness ==
  \E t \in Threads :
    /\ tpc[t].pc = "WLock" /\ latch[tpc[t].frame] # FreeLatch
    /\ last.op = "NewPage" /\ last.ok

-----------------------------------------------------------------------------
(* Claims about the B+ tree (SpecTree, SpecInsert). *)

\* what GetValue has to return for key: the value in live, else absent
Expected(key) ==
  IF key \in DOMAIN live THEN [ok |-> TRUE, val |-> live[key], fault |-> FALSE]
  ELSE [ok |-> FALSE, val |-> 0, fault |-> FALSE]

LastGetValueIsExpected ==
  last.op = "GetValue" =>
    /\ ~last.threw
    /\ last.ok = Expected(last.arg).ok
    /\ last.ret = Expected(last.arg).val

\* C2: after any sequence of Insert and Remove, GetValue(k) returns the
\* inserted value for every key inserted and not removed since, and absent
\* for every other key.
C2_RemoveKeepsLiveKeysReachable ==
  /\ LastGetValueIsExpected
  /\ ~tree.fault => \A key \in MixedKeys : GetValue(tree, key) = Expected(key)

RECURSIVE InsertAscending(_, _)
InsertAscending(t, n) ==
  IF n = 0 THEN t ELSE Insert(InsertAscending(t, n - 1), n, 1).t

AfterAscending2 == InsertAscending(NewTree(2, 3), 2)
AfterAscending3 == InsertAscending(NewTree(2, 3), 3)
AfterAscending5 == InsertAscending(NewTree(2, 3), 5)

\* the keys of page p, slot 0 of an internal page left out
LeafKeys(t, p) == [i \in 1 .. GetSize(t, p) |-> KeyAt(t, p, i - 1)]
SeparatorKeys(t, p) == [i \in 1 .. (GetSize(t, p) - 1) |-> KeyAt(t, p, i)]

\* page p of t is an internal page over leaves only, with these separators
\* and these leaf contents, the leaves chained left to right and the last
\* one to the page after
IsParentOfLeaves(t, p, separators, leaves, after) ==
  /\ ~IsLeafPage(t, p)
  /\ GetSize(t, p) = Len(leaves)
  /\ SeparatorKeys(t, p) = separators
  /\ \A i \in 1 .. Len(leaves) :
        /\ IsLeafPage(t, ValueAt(t, p, i - 1))
        /\ LeafKeys(t, ValueAt(t, p, i - 1)) = leaves[i]
        /\ GetNextPageId(t, ValueAt(t, p, i - 1))
             = IF i < Len(leaves) THEN ValueAt(t, p, i) ELSE after

\* t is an internal root over leaves only
IsTwoLevelTree(t, separators, leaves) ==
  /\ ~t.fault /\ t.root_page_id_ # INVALID_PAGE_ID
  /\ IsParentOfLeaves(t, t.root_page_id_, separators, leaves, INVALID_PAGE_ID)

IsSingleLeaf(t, keys) ==
  /\ ~t.fault /\ t.root_page_id_ # INVALID_PAGE_ID
  /\ IsLeafPage(t, t.root_page_id_)
  /\ LeafKeys(t, t.root_page_id_) = keys

GreatestIndexNotAbove(t, p, key) ==
  CHOOSE i \in 0 .. (GetSize(t, p) - 1) :
    /\ i = 0 \/ KeyAt(t, p, i) <= key
    /\ \A j \in (i + 1) .. (GetSize(t, p) - 1) : KeyAt(t, p, j) > key

\* C25: on every internal page of size >= 2 and for every probe key, Lookup
\* returns (child[i], i) for the greatest i with key[i] <= probe; the index
\* returned designates the child returned.
C25_LookupReturnsChildAndItsIndex ==
  ~tree.fault =>
    \A p \in 1 .. Len(tree.pages), key \in Keys :
      (~IsLeafPage(tree, p) /\ GetSize(tree, p) >= 2) =>
        /\ InternalLookup(tree, p, key).second = GreatestIndexNotAbove(tree, p, key)
        /\ InternalLookup(tree, p, key).first
             = ValueAt(tree, p, InternalLookup(tree, p, key).second)

\* C26: every page of the tree whose content an Insert or a Remove writes
\* (the page itself, its parent, the sibling that Borrow or Merge modifies)
\* is a page the calling thread holds the exclusive latch of, so that no
\* thread holding a latch on a page sees another thread modify it.  The key
\* of the call is the key that joined or left live.
C26_WritesOnlyUnderExclusiveLatch ==
  [][\A key \in MixedKeys :
       (\/ last'.op = "Remove" /\ key \in DOMAIN live /\ key \notin DOMAIN live'
        \/ last'.op = "Insert" /\ key \notin DOMAIN live /\ key \in DOMAIN live')
         => (WrittenPages(tree, tree') \cap (1 .. Len(tree.pages)))
              \subseteq WriteLatched(tree, key)]_vars

\* the members of a sequence of page ids
PageSet(seq) == {seq[i] : i \in 1 .. Len(seq)}

\* the guards the descent retains: from the root with the header still held,
\* or from a safe page with the header and the ancestors released; each
\* retained page is the child of the one before
RetainsFromSafePage(t, d, insert) ==
  /\ Len(d.guards) >= 1
  /\ IF d.header THEN d.guards[1] = t.root_page_id_
                 ELSE IsSafe(t, d.guards[1], insert)
  /\ \A i \in 1 .. (Len(d.guards) - 1) :
        \E j \in 0 .. (GetSize(t, d.guards[i]) - 1) :
          ValueAt(t, d.guards[i], j) = d.guards[i + 1]

\* the call on t that gave t2 wrote no page of its descent whose latch it
\* had released, and changed the root id only with the header still held
WritesOnlyRetained(t, t2, d, key) ==
  /\ (WrittenPages(t, t2) \cap PageSet(DescentFetches(t, t.root_page_id_, key)))
        \subseteq PageSet(d.guards)
  /\ t2.root_page_id_ # t.root_page_id_ => d.header

InsertKeepsItsLatches(t, d, key) ==
  ~d.fault =>
    /\ RetainsFromSafePage(t, d, TRUE)
    /\ ~Insert(t, key, 1).t.fault
    /\ WritesOnlyRetained(t, Insert(t, key, 1).t, d, key)

\* a page left below min_size by Remove at the top of the retained guards is
\* the root: no page needs a parent that was released
RemoveKeepsItsLatches(t, t2, d, key) ==
  ~d.fault =>
    /\ RetainsFromSafePage(t, d, FALSE)
    /\ t2.fault \/ WritesOnlyRetained(t, t2, d, key)
    /\ (~t2.fault /\ GetSize(t2, d.guards[1]) < GetSize(t, d.guards[1])
          /\ GetSize(t2, d.guards[1]) < GetMinSize(t2, d.guards[1]))
         => d.guards[1] = t.root_page_id_

RECURSIVE Subtree(_, _, _)
Subtree(t, p, depth) ==
  IF p \notin 1 .. Len(t.pages) THEN {}
  ELSE IF IsLeafPage(t, p) \/ depth = 0 THEN {p}
  ELSE {p} \cup UNION {Subtree(t, ValueAt(t, p, i - 1), depth - 1) : i \in 1 .. GetSize(t, p)}

SubtreeKeys(t, p) ==
  UNION {{KeyAt(t, q, i - 1) : i \in 1 .. GetSize(t, q)} :
           q \in {r \in Subtree(t, p, Len(t.pages)) : IsLeafPage(t, r)}}

TreePages(t) ==
  IF t.root_page_id_ = INVALID_PAGE_ID THEN {} ELSE Subtree(t, t.root_page_id_, Len(t.pages))

StrictlyAscending(a) == \A i \in 1 .. (Len(a) - 1) : a[i] < a[i + 1]

\* key[i] of internal page p separates the subtrees of child[i-1] and child[i]
Separates(t, p, i) ==
  /\ \A key \in SubtreeKeys(t, ValueAt(t, p, i)) : key >= KeyAt(t, p, i)
  /\ \A key \in SubtreeKeys(t, ValueAt(t, p, i - 1)) : key < KeyAt(t, p, i)

KeysOrdered(t) ==
  \A p \in TreePages(t) :
    IF IsLeafPage(t, p) THEN StrictlyAscending(LeafKeys(t, p))
    ELSE /\ StrictlyAscending(SeparatorKeys(t, p))
         /\ \A i \in 1 .. (GetSize(t, p) - 1) : Separates(t, p, i)

\* the order holds in t unless the Remove that made t failed an assertion
KeysOrderedAfterRemove(t) ==
  ~t.fault => KeysOrdered(t)

\* C28: in every state reached by Insert and Remove, each internal node's
\* keys key[1..size-1] are strictly ascending, every key in the subtree of
\* child[i] is >= key[i] and every key in the subtree of child[i-1] is
\* < key[i], and each leaf's keys are strictly ascending.
C28_KeysOrdered ==
  ~tree.fault =>
    /\ KeysOrdered(tree)
    /\ \A ndebug \in BOOLEAN, key \in Keys :
          KeysOrderedAfterRemove(TreeRemove(tree, key, ndebug))

\* C15 without the latches: the result and the pages of the tree
DuplicateInsertIsRejected ==
  ~tree.fault =>
    \A key \in MixedKeys, value \in Values :
      IF key \in DOMAIN live
        THEN /\ ~Insert(tree, key, value).ok
             /\ Insert(tree, key, value).t = tree
        ELSE Insert(tree, key, value).ok

\* C15: Insert of a key the tree contains returns false, leaves every page
\* of the tree as it was, and no page it fetched stays latched or pinned
\* when it returns; Insert of a key the tree does not contain returns true.
C15_DuplicateInsertChangesNothing ==
  /\ DuplicateInsertIsRejected
  /\ ~tree.fault =>
       \A key \in DOMAIN live : LatchedAfterReturn(InsertFetches(tree, key)) = {}

\* the leaves below page p from left to right, through at most depth levels
RECURSIVE LeavesBelow(_, _, _, _)
RECURSIVE LeavesOfChildren(_, _, _, _)
LeavesBelow(t, p, depth, out) ==
  IF p \notin 1 .. Len(t.pages) THEN out
  ELSE IF IsLeafPage(t, p) THEN Append(out, p)
  ELSE IF depth = 0 THEN out
  ELSE LeavesOfChildren(t, p, depth - 1, [at |-> 0, out |-> out])

LeavesOfChildren(t, p, depth, acc) ==
  IF acc.at >= GetSize(t, p) THEN acc.out
  ELSE LeavesOfChildren(t, p, depth,
         [at |-> acc.at + 1, out |-> LeavesBelow(t, ValueAt(t, p, acc.at), depth, acc.out)])

LeavesInOrder(t) ==
  IF t.root_page_id_ = INVALID_PAGE_ID THEN << >>
  ELSE LeavesBelow(t, t.root_page_id_, Len(t.pages), << >>)

\* the leaves met by following next_page_id_ from leaf p, at most n of them
RECURSIVE ChainFrom(_, _, _, _)
ChainFrom(t, p, n, out) ==
  IF p = INVALID_PAGE_ID \/ p = NullPage \/ n = 0 THEN out
  ELSE ChainFrom(t, GetNextPageId(t, p), n - 1, Append(out, p))

LeafChainPages(t) ==
  ChainFrom(t, LeftmostLeaf(t, t.root_page_id_), Len(t.pages) + 1, << >>)

\* C29: in every state reached by Insert and Remove, following next_page_id
\* from the leftmost leaf visits exactly the leaves reachable from the root,
\* each once and from left to right, and ends at INVALID_PAGE_ID; a leaf that
\* Merge took out of its parent is not on the chain.
C29_LeafChainIsTheReachableLeaves ==
  ~tree.fault => LeafChainPages(tree) = LeavesInOrder(tree)

\* every page of the tree but the root holds min_size to max_size slots
Occupancy(t) ==
  \A p \in TreePages(t) \ {t.root_page_id_} :
    GetMinSize(t, p) <= GetSize(t, p) /\ GetSize(t, p) <= GetMaxSize(t, p)

\* C30: in every state reached by Insert and Remove, every non-root leaf has
\* size in [ceil(leaf_max/2), leaf_max] and every non-root internal node has
\* size in [ceil(internal_max/2), internal_max], for odd and even maximum
\* sizes; both halves of a leaf split are at least half full once the pending
\* key is in.
C30_Occupancy == ~tree.fault => Occupancy(tree)

\* the slot of page parent that holds child
SlotOf(t, parent, child) ==
  CHOOSE i \in 0 .. (GetSize(t, parent) - 1) : ValueAt(t, parent, i) = child

\* Borrow took one entry of lender for child across their boundary: the
\* entries of the left page followed by those of the right page are the
\* same sequence as before, and the parent's separator of the right page is
\* that page's first key
BorrowedAcross(t, t2, parent, left, right) ==
  /\ t2.pages[left].array_ \o t2.pages[right].array_
       = t.pages[left].array_ \o t.pages[right].array_
  /\ KeyAt(t2, parent, SlotOf(t, parent, right)) = KeyAt(t2, right, 0)

\* Borrow for leaf child at slot i of parent gave tree t2: the left sibling
\* lent if it could, else the right one
BorrowedFromSibling(t, t2, parent, child, i) ==
  /\ GetSize(t2, child) = GetSize(t, child) + 1
  /\ SubtreeKeys(t2, t2.root_page_id_) = SubtreeKeys(t, t.root_page_id_)
  /\ IF i > 0 /\ CanBorrow(t, ValueAt(t, parent, i - 1))
       THEN /\ GetSize(t2, ValueAt(t, parent, i - 1)) = GetSize(t, ValueAt(t, parent, i - 1)) - 1
            /\ BorrowedAcross(t, t2, parent, ValueAt(t, parent, i - 1), child)
       ELSE /\ i < GetSize(t, parent) - 1 /\ CanBorrow(t, ValueAt(t, parent, i + 1))
            /\ GetSize(t2, ValueAt(t, parent, i + 1)) = GetSize(t, ValueAt(t, parent, i + 1)) - 1
            /\ BorrowedAcross(t, t2, parent, child, ValueAt(t, parent, i + 1))

\* the Borrow that Remove(key) calls first, for the leaf it has emptied below
\* min_size: d is the descent, t the tree after the leaf's Remove(index)
FirstBorrowIsRight(t, d, ndebug) ==
  (~t.fault /\ Len(d.guards) >= 2 /\ GetSize(t, Back(d.guards)) < GetMinSize(t, Back(d.guards))) =>
    LET parent == d.guards[Len(d.guards) - 1]
        b == Borrow(t, parent, Back(d.guards), Back(d.indexes), ndebug)
    IN  (b.ok /\ ~b.t.fault) =>
          BorrowedFromSibling(t, b.t, parent, Back(d.guards),
                              SlotOf(t, parent, Back(d.guards)))

LeafRemoved(t, d, key) ==
  LeafRemove(t, Back(d.guards), IndexOfFirstKeyEqualOrGreaterThan(t, Back(d.guards), key).first)

\* C34: a successful Borrow during Remove moves exactly one entry from a
\* sibling above min_size into the underflowing child, the left sibling
\* first, sets the parent's separator of the right participant to its new
\* first key and leaves the keys of the tree unchanged.
C34_BorrowMovesOneEntryAcross ==
  (~tree.fault /\ tree.root_page_id_ # INVALID_PAGE_ID) =>
    \A key \in DOMAIN live, ndebug \in BOOLEAN :
      LET d == Descend(tree, tree.root_page_id_, key, NoGuards, FALSE)
      IN  (~d.fault /\ IndexOfFirstKeyEqualOrGreaterThan(tree, Back(d.guards), key).second)
            => FirstBorrowIsRight(LeafRemoved(tree, d, key), d, ndebug)

\* C35: whenever a Remove leaves the root an internal page with exactly one
\* child, the header's root id is replaced by that child's before Remove
\* returns: in no state between calls is the root an internal page of size 1.
C35_RootCollapses ==
  (~tree.fault /\ tree.root_page_id_ # INVALID_PAGE_ID) =>
    (IsLeafPage(tree, tree.root_page_id_) \/ GetSize(tree, tree.root_page_id_) # 1)

\* C36: Remove of a key that is not in the tree, an empty tree included,
\* changes no page of the tree and no root id, and returns with every latch
\* and pin it took released.
C36_RemoveOfAbsentKeyIsNoOp ==
  [][(last'.op = "Remove" /\ live' = live) =>
        /\ tree' = tree
        /\ \E key \in MixedKeys \ DOMAIN live :
              LatchedAfterReturn(RemoveFetches(tree, key)) = {}]_vars

\* C39: when GetValue, Insert or Remove returns, on every path, the calling
\* thread holds no latch and every pin count is what it was before the call:
\* no page that Insert or Remove of any key fetches from a tree between calls
\* is still latched and pinned after the call's guards are gone.
C39_PinAndLatchBalance ==
  ~tree.fault =>
    \A key \in MixedKeys :
      /\ LatchedAfterReturn(RemoveFetches(tree, key)) = {}
      /\ tree.root_page_id_ # INVALID_PAGE_ID
            => LatchedAfterReturn(InsertFetches(tree, key)) = {}

\* the keys along the leaf chain of t, as a scan from the leftmost leaf reads
\* them, and the keys GetValue finds in t
LeafChain(t) == Iterate(t, LeftmostLeaf(t, t.root_page_id_), 0, << >>)

FoundKeys(t) == {key \in MixedKeys : GetValue(t, key).ok}

\* C16: for every tree reached by Insert and Remove calls and every key not
\* in it, Insert of the key followed by Remove of the key gives a tree with
\* the same key set and the same sequence of keys along the leaf chain.
C16_InsertRemoveRoundTrip ==
  ~tree.fault =>
    \A key \in MixedKeys \ DOMAIN live, ndebug \in BOOLEAN :
      LET t2 == TreeRemove(Insert(tree, key, 1).t, key, ndebug)
      IN  /\ ~t2.fault
          /\ FoundKeys(t2) = FoundKeys(tree)
          /\ LeafChain(t2) = LeafChain(tree)

\* BPlusTree::GetRootPageId
GetRootPageId(t) == t.root_page_id_

\* C17: when Remove has deleted the last key of the tree (the root is a
\* leaf and has become empty), the root id of the header is INVALID_PAGE_ID.
C17_EmptyTreeHasInvalidRoot ==
  (/\ last.op = "Remove" /\ ~tree.fault
   /\ GetRootPageId(tree) # INVALID_PAGE_ID
   /\ IsLeafPage(tree, GetRootPageId(tree)))
    => GetSize(tree, GetRootPageId(tree)) > 0

\* C18: Begin(p) returns an iterator at the smallest live key >= p, or one
\* for which IsEnd() is true when there is no such key.
C18_BeginAtFirstKeyNotBelowProbe ==
  last.op = "Begin" =>
    /\ ~last.threw
    /\ IF \E key \in DOMAIN live : key >= last.arg
         THEN /\ ~last.flag
              /\ last.ret \in DOMAIN live /\ last.ret >= last.arg
              /\ \A key \in DOMAIN live : key >= last.arg => last.ret <= key
         ELSE last.flag

\* C33: the iterator holds a leaf's shared latch only inside its accessor
\* calls: when Begin() or Begin(key) returns, the iterator holds no latch on
\* any page, so the leaf it points to can be latched exclusively.
C33_IdleIteratorHoldsNoLatch ==
  (last.op = "Begin" /\ ~last.threw /\ tree.root_page_id_ # INVALID_PAGE_ID) =>
    \A p \in 1 .. Len(tree.pages) :
      /\ LatchesAfterBeginAt(tree, FindLeafPage(tree, tree.root_page_id_, last.arg),
                             last.arg)[p] = 0
      /\ LatchesAfterBegin(tree)[p] = 0

\* C19: after a complete forward scan every page has the pin count it had
\* before the scan: the iterator has unpinned the pages of its descent and
\* every leaf it left.
C19_ScanReturnsEveryPin ==
  (iter.done /\ ~iter.fault /\ tree.root_page_id_ # INVALID_PAGE_ID) =>
    \A p \in 1 .. Len(tree.pages) : PinsLeftByScan(tree, p) = 0

\* C8: a scan from Begin() to IsEnd() on a tree with a root yields the live
\* keys in strictly ascending order, each once, and never reads a slot outside
\* [0, size) of a leaf.
C8_ScanYieldsLiveKeysAscending ==
  (iter.done /\ tree.root_page_id_ # INVALID_PAGE_ID) =>
    /\ ~iter.fault
    /\ \A i \in 1 .. (Len(iter.keys) - 1) : iter.keys[i] < iter.keys[i + 1]
    /\ {iter.keys[i] : i \in 1 .. Len(iter.keys)} = DOMAIN live

====
